---- MODULE Spec2Model ----
(***************************************************************************)
(* A model of TeleGPT's response pipeline:                                 *)
(*   - ThrottleBuffer (src/src/utils/stream_ext.rs), a stream combinator   *)
(*     that coalesces the items of an inner stream and hands them over at  *)
(*     most once per interval;                                             *)
(*   - Session / HistoryMessagePool (src/src/modules/chat/session.rs) and  *)
(*     SessionManager (src/src/modules/chat/session_mgr.rs);               *)
(*   - the chat handlers (src/src/modules/chat/mod.rs).                    *)
(* Three specifications share the module: ThrottleSpec (with ThrottleFair, *)
(* the same machine under the scheduling a woken task is guaranteed),      *)
(* SessionSpec and Spec (the handlers).                                    *)
(***************************************************************************)
EXTENDS Integers, Sequences, FiniteSets, TLC

\* ------------------------------------------------------------------ bounds

\* Updates dispatched to the chat handlers in one run.
MaxInvocations == 3
\* The largest openai_api_timeout the configuration is given.
MaxTimeout == 2

\* The longest input sequence the inner stream of a ThrottleBuffer yields.
MaxItems == 3
\* The largest throttle interval, in clock units.
MaxInterval == 2
\* The clock stops advancing here unless a cooldown timer is still running.
MaxTime == 4
\* Ids are i64 in the code; the model keeps the two's-complement wrap-around
\* in a narrower range, IdMin .. IdMax.
IdMax == 2
\* The largest conversation_limit the configuration is given.
MaxLimit == 2
\* SessionManager methods each concurrent task calls in one run.
MaxCalls == 2

\* ----------------------------------------------------------------- Option

None == << >>
Some(x) == << x >>
IsSome(o) == Len(o) = 1
IsNone(o) == Len(o) = 0
Unwrap(o) == o[1]

Min(a, b) == IF a <= b THEN a ELSE b
Max(a, b) == IF a >= b THEN a ELSE b

RECURSIVE Flatten(_)
Flatten(ss) == IF ss = << >> THEN << >> ELSE Head(ss) \o Flatten(Tail(ss))

\* =========================================================================
\* ThrottleBuffer
\* =========================================================================

VARIABLES
    input_len,      \* the inner stream yields the items 1, 2, ..., input_len
    upstream,       \* how many of them the inner stream has produced so far
    stream_ready,   \* items the inner stream returns Ready(Some(_)) for, in order
    stream_closed,  \* the inner stream returns Ready(None) once stream_ready is drained
    interval,       \* ThrottleBuffer::interval
    buffer,         \* ThrottleBuffer::buffer : Option<B>
    active_sleep,   \* ThrottleBuffer::active_sleep : Option<deadline>
    done,           \* ThrottleBuffer::done
    now,            \* the clock
    stream_waker,   \* the inner stream holds the task's waker (it returned Pending)
    sleep_waker,    \* the cooldown timer holds the task's waker (it returned Pending)
    woken,          \* the consumer task is scheduled to poll
    emitted,        \* the items handed over so far, each [buf, at, rest]: the buffer,
                    \* the time, and whether it was delivered as the rest buffer
    out_ended,      \* poll_next has returned Ready(None)
    poll_result     \* what the last poll_next returned

tvars == << input_len, upstream, stream_ready, stream_closed, interval, buffer,
            active_sleep, done, now, stream_waker, sleep_waker, woken, emitted,
            out_ended, poll_result >>

\* The sessions and the configuration they are created with.
VARIABLES
    sessions,            \* SessionManagerInner::sessions : HashMap<String, Session>
    conversation_limit   \* Config::conversation_limit

svars == << sessions, conversation_limit >>

\* The chat handlers.
VARIABLES
    hd,                  \* each handler task's kind, position and locals
    invocations,         \* updates dispatched to the handlers so far
    usage,               \* add_usage calls made to the stats manager
    last_return,         \* how the handler that returned last ended
    taken,               \* a retry has taken the message the last failed turn stashed
    openai_api_timeout,  \* Config::openai_api_timeout
    renders_markdown     \* Config::renders_markdown

ovars == << hd, invocations, usage, last_return, taken, openai_api_timeout,
           renders_markdown >>

\* The lock of the session map, and the calls of SessionManager methods.
VARIABLES
    lock,                \* SessionManager::inner's Mutex: the task holding its guard
    call                 \* each task's position in, and arguments of, its current call

lvars == << lock, call >>

\* The pure conversions, each applied step by step to an input of its own.
VARIABLES
    md,                  \* markdown::parse: the fold over the events and its result
    bp,                  \* braille::BrailleProgress and the arguments it was built with
    ca                   \* dptree_ext::extract_command_args: its arguments and result

fvars == << md, bp, ca >>

vars == << tvars, svars, ovars, lvars, fvars >>

\* `this.buffer.get_or_insert(Default::default()).extend([item])`, once per item drained.
ExtendDropsOld(buf, items) == Some(items)
Extend(buf, items) == Some((IF IsSome(buf) THEN Unwrap(buf) ELSE << >>) \o items)

\* The loop of poll_next: every item the inner stream has ready goes to the buffer.
Drain(buf, items) == IF items = << >> THEN buf ELSE Extend(buf, items)

\* A poll_next that forgets the rest buffer once the inner stream is done.
PollDoneDropsRest ==
    /\ done
    /\ poll_result' = "None"
    /\ out_ended' = TRUE
    /\ woken' = FALSE
    /\ UNCHANGED << input_len, upstream, stream_ready, stream_closed, interval, buffer,
                    active_sleep, done, now, stream_waker, sleep_waker, emitted >>

\* `if *this.done { ... }`: the rest buffer is delivered, then Ready(None).
PollDone ==
    /\ done
    /\ IF IsSome(buffer)
       THEN /\ emitted' = Append(emitted, [buf |-> Unwrap(buffer), at |-> now, rest |-> TRUE])
            /\ buffer' = None
            /\ poll_result' = "Some"
            /\ woken' = TRUE
            /\ out_ended' = out_ended
       ELSE /\ poll_result' = "None"
            /\ out_ended' = TRUE
            /\ woken' = FALSE
            /\ UNCHANGED << emitted, buffer >>
    /\ UNCHANGED << input_len, upstream, stream_ready, stream_closed, interval,
                    active_sleep, done, now, stream_waker, sleep_waker >>

\* The rest of poll_next: drain the inner stream, then the cooldown, then hand over.
PollLive ==
    /\ ~done
    /\ LET buf1 == Drain(buffer, stream_ready)
           sleeping == IsSome(active_sleep) /\ now < Unwrap(active_sleep)
       IN /\ stream_ready' = << >>
          /\ done' = stream_closed
          /\ stream_waker' = ~stream_closed
          /\ IF IsNone(buf1)
             THEN \* "The stream is not ready yet, don't start throttling now."
                  /\ poll_result' = "Pending"
                  /\ woken' = FALSE
                  /\ buffer' = buf1
                  /\ UNCHANGED << active_sleep, sleep_waker, emitted >>
             ELSE IF sleeping
                  THEN \* futures::ready!(sleep.poll(cx))
                       /\ poll_result' = "Pending"
                       /\ woken' = FALSE
                       /\ buffer' = buf1
                       /\ sleep_waker' = TRUE
                       /\ UNCHANGED << active_sleep, emitted >>
                  ELSE /\ active_sleep' = Some(now + interval)
                       /\ sleep_waker' = FALSE
                       /\ emitted' = Append(emitted, [buf |-> Unwrap(buf1), at |-> now, rest |-> FALSE])
                       /\ buffer' = None
                       /\ poll_result' = "Some"
                       /\ woken' = TRUE
    /\ UNCHANGED << input_len, upstream, stream_closed, interval, now, out_ended >>

\* ThrottleBuffer::poll_next
poll_next == PollDone \/ PollLive

\* The consumer polls because it was woken, or to ask for the item after the
\* one it just received.
PollWoken == woken /\ poll_next /\ UNCHANGED << svars, ovars, lvars, fvars >>

\* A poll nothing of the throttle asked for: the consumer's task was woken by
\* another future it selects on (stream_model_result's one-second sleep).
PollSpurious == ~woken /\ poll_next /\ UNCHANGED << svars, ovars, lvars, fvars >>

\* The inner stream produces its next item and wakes the task it holds a waker of.
Arrive ==
    /\ ~stream_closed
    /\ upstream < input_len
    /\ upstream' = upstream + 1
    /\ stream_ready' = Append(stream_ready, upstream + 1)
    /\ woken' = (woken \/ stream_waker)
    /\ stream_waker' = FALSE
    /\ UNCHANGED << input_len, stream_closed, interval, buffer, active_sleep, done,
                    now, sleep_waker, emitted, out_ended, poll_result, svars, ovars, lvars, fvars >>

\* The inner stream completes.
Close ==
    /\ ~stream_closed
    /\ upstream = input_len
    /\ stream_closed' = TRUE
    /\ woken' = (woken \/ stream_waker)
    /\ stream_waker' = FALSE
    /\ UNCHANGED << input_len, upstream, stream_ready, interval, buffer, active_sleep,
                    done, now, sleep_waker, emitted, out_ended, poll_result, svars, ovars, lvars, fvars >>

\* The clock advances; a timer that reaches its deadline wakes the task.
Clock ==
    /\ \/ now < MaxTime
       \/ IsSome(active_sleep) /\ now < Unwrap(active_sleep)
    /\ now' = now + 1
    /\ LET fires == sleep_waker /\ IsSome(active_sleep) /\ Unwrap(active_sleep) <= now + 1
       IN /\ woken' = (woken \/ fires)
          /\ sleep_waker' = (sleep_waker /\ ~fires)
    /\ UNCHANGED << input_len, upstream, stream_ready, stream_closed, interval, buffer,
                    active_sleep, done, stream_waker, emitted, out_ended, poll_result,
                    svars, ovars, lvars, fvars >>

\* ThrottleBuffer::new, and the consumer about to call next() for the first time.
ThrottleInit ==
    /\ input_len \in 0 .. MaxItems
    /\ interval \in 0 .. MaxInterval
    /\ upstream = 0
    /\ stream_ready = << >>
    /\ stream_closed = FALSE
    /\ buffer = None
    /\ active_sleep = None
    /\ done = FALSE
    /\ now = 0
    /\ stream_waker = FALSE
    /\ sleep_waker = FALSE
    /\ woken = TRUE
    /\ emitted = << >>
    /\ out_ended = FALSE
    /\ poll_result = "none"
    \* the sessions and the handlers are not part of this machine
    /\ sessions = << >> /\ conversation_limit = 0
    /\ hd = << >> /\ invocations = 0 /\ usage = 0 /\ last_return = "none"
    /\ taken = FALSE
    /\ lock = << >> /\ call = << >>
    /\ md = << >> /\ bp = << >> /\ ca = << >>
    /\ openai_api_timeout = 0 /\ renders_markdown = FALSE

ThrottleNext == PollWoken \/ PollSpurious \/ Arrive \/ Close \/ Clock

ThrottleSpec == ThrottleInit /\ [][ThrottleNext]_vars

\* A woken task is polled, the inner stream yields all of its input and then
\* completes, and time passes; nothing promises a poll nobody asked for.
ThrottleFair ==
    /\ ThrottleSpec
    /\ WF_vars(PollWoken)
    /\ WF_vars(Arrive)
    /\ WF_vars(Close)
    /\ WF_vars(Clock)

\* =========================================================================
\* Session and HistoryMessagePool
\* =========================================================================

Chat == "c1"
Roles == {"user", "assistant", "system"}
Contents == {"u1", "u2"}
IdMin == -IdMax - 1
Ids == IdMin .. IdMax

Message(role, content) == [role |-> role, content |-> content]
HistoryMessage(id, message) == [id |-> id, message |-> message]

\* i64::overflowing_add(1), first component
OverflowingAdd1(id) == IF id = IdMax THEN IdMin ELSE id + 1

\* HashMap::insert, HashMap::remove
MapInsert(m, k, v) == [x \in (DOMAIN m) \cup {k} |-> IF x = k THEN v ELSE m[x]]
MapRemove(m, k) == [x \in (DOMAIN m) \ {k} |-> m[x]]
EmptyMap == << >>

\* HistoryMessagePool::default
NewPool == [current_id |-> 0, messages |-> EmptyMap, deque |-> << >>]

\* HistoryMessagePool::prepare_message: the pool with the id allocated, and the entry
PrepareMessageStores(pool, message) ==
    LET id == OverflowingAdd1(pool.current_id)
        entry == HistoryMessage(id, message)
    IN [pool |-> [pool EXCEPT !.current_id = id,
                              !.messages = MapInsert(pool.messages, id, entry),
                              !.deque = Append(pool.deque, id)],
        entry |-> entry]
prepare_message(pool, message) ==
    LET id == OverflowingAdd1(pool.current_id)
    IN [pool |-> [pool EXCEPT !.current_id = id], entry |-> HistoryMessage(id, message)]

\* HistoryMessagePool::push_message
push_message(pool, entry) ==
    [pool EXCEPT !.messages = MapInsert(pool.messages, entry.id, entry),
                 !.deque = Append(pool.deque, entry.id)]

\* HistoryMessagePool::pop_message
pop_message(pool) ==
    IF pool.deque = << >>
    THEN pool
    ELSE [pool EXCEPT !.messages = MapRemove(pool.messages, Head(pool.deque)),
                      !.deque = Tail(pool.deque)]

\* HistoryMessagePool::clear
clear(pool) == [pool EXCEPT !.messages = EmptyMap, !.deque = << >>]

\* HistoryMessagePool::len
len(pool) == Len(pool.deque)

\* HistoryMessagePool::get_message
get_message(pool, id) ==
    IF id \in DOMAIN pool.messages THEN Some(pool.messages[id]) ELSE None

\* HistoryMessagePool::iter
iter(pool) ==
    LET ids == SelectSeq(pool.deque, LAMBDA i : i \in DOMAIN pool.messages)
    IN [k \in 1 .. Len(ids) |-> pool.messages[ids[k]]]

\* Session::new
NewSession == [system_message |-> None, history_messages |-> NewPool,
               pending_message |-> None]

\* Session::reset
ResetKeepsIndex(s) ==
    [s EXCEPT !.system_message = None,
              !.history_messages = [s.history_messages EXCEPT !.deque = << >>],
              !.pending_message = None]
reset(s) == [s EXCEPT !.system_message = None,
                      !.history_messages = clear(s.history_messages),
                      !.pending_message = None]

\* Session::prepare_history_message: the session with the id allocated, and the entry
prepare_history_message(s, message) ==
    LET r == prepare_message(s.history_messages, message)
    IN [session |-> [s EXCEPT !.history_messages = r.pool], entry |-> r.entry]

\* `self.history_messages.len() >= (self.config.conversation_limit as usize)`
AtLimit(pool, limit) == len(pool) >= limit

\* Session::add_history_message
AddSystemToPool(s, entry, limit) ==
    LET popped == IF AtLimit(s.history_messages, limit)
                  THEN pop_message(s.history_messages)
                  ELSE s.history_messages
    IN IF entry.message.role = "system"
       THEN [s EXCEPT !.system_message = Some(entry.message),
                      !.history_messages = push_message(popped, entry)]
       ELSE [s EXCEPT !.history_messages = push_message(popped, entry)]
add_history_message(s, entry, limit) ==
    IF entry.message.role = "system"
    THEN [s EXCEPT !.system_message = Some(entry.message)]
    ELSE LET popped == IF AtLimit(s.history_messages, limit)
                       THEN pop_message(s.history_messages)
                       ELSE s.history_messages
         IN [s EXCEPT !.history_messages = push_message(popped, entry)]

\* Session::get_history_message
get_history_message(s, id) ==
    LET e == get_message(s.history_messages, id)
    IN IF IsSome(e) THEN Some(Unwrap(e).message) ELSE None

\* Session::get_history_messages
get_history_messages(s) ==
    LET pool == iter(s.history_messages)
        msgs == [k \in 1 .. Len(pool) |-> pool[k].message]
    IN IF IsSome(s.system_message) THEN << Unwrap(s.system_message) >> \o msgs ELSE msgs

\* Session::swap_pending_message: the session afterwards, and the value returned
SwapPendingKeepsFirst(s, msg) ==
    [session |-> [s EXCEPT !.pending_message =
                      IF IsSome(msg) /\ IsSome(s.pending_message)
                      THEN s.pending_message ELSE msg],
     ret |-> s.pending_message]
SwapPendingLeavesOnTake(s, msg) ==
    [session |-> IF IsSome(msg) THEN [s EXCEPT !.pending_message = msg] ELSE s,
     ret |-> s.pending_message]
swap_pending_message(s, msg) ==
    [session |-> [s EXCEPT !.pending_message = msg], ret |-> s.pending_message]

\* ---- SessionSpec: one Session under any sequence of its public operations

TheSession == sessions[Chat]

SessionReset ==
    /\ sessions' = [sessions EXCEPT ![Chat] = reset(TheSession)]
    /\ UNCHANGED << conversation_limit, tvars, ovars, lvars, fvars >>

SessionPrepare ==
    \E role \in Roles, content \in Contents :
        /\ sessions' = [sessions EXCEPT
               ![Chat] = prepare_history_message(TheSession, Message(role, content)).session]
        /\ UNCHANGED << conversation_limit, tvars, ovars, lvars, fvars >>

SessionAdd ==
    \E id \in Ids, role \in Roles, content \in Contents :
        /\ sessions' = [sessions EXCEPT
               ![Chat] = add_history_message(TheSession,
                             HistoryMessage(id, Message(role, content)), conversation_limit)]
        /\ UNCHANGED << conversation_limit, tvars, ovars, lvars, fvars >>

SessionSwap ==
    \E msg \in {None} \cup {Some(Message("user", c)) : c \in Contents} :
        /\ sessions' = [sessions EXCEPT ![Chat] = swap_pending_message(TheSession, msg).session]
        /\ UNCHANGED << conversation_limit, tvars, ovars, lvars, fvars >>

\* Session::new(config), for every conversation_limit the configuration admits
SessionInit ==
    /\ conversation_limit \in 0 .. MaxLimit
    /\ sessions = MapInsert(EmptyMap, Chat, NewSession)
    \* the throttle and the handlers are not part of this machine
    /\ input_len = 0 /\ upstream = 0 /\ stream_ready = << >> /\ stream_closed = FALSE
    /\ interval = 0 /\ buffer = None /\ active_sleep = None /\ done = FALSE /\ now = 0
    /\ stream_waker = FALSE /\ sleep_waker = FALSE /\ woken = FALSE
    /\ emitted = << >> /\ out_ended = FALSE /\ poll_result = "none"
    /\ hd = << >> /\ invocations = 0 /\ usage = 0 /\ last_return = "none"
    /\ taken = FALSE
    /\ lock = << >> /\ call = << >>
    /\ md = << >> /\ bp = << >> /\ ca = << >>
    /\ openai_api_timeout = 0 /\ renders_markdown = FALSE

SessionNext == SessionReset \/ SessionPrepare \/ SessionAdd \/ SessionSwap

SessionSpec == SessionInit /\ [][SessionNext]_vars

\* ------------------------------------------------------------ Session claims

\* C2: in every reachable state of a Session the pool retains at most
\* conversation_limit entries, for every conversation_limit (0 and 1 included).
C2_PoolWithinLimit == len(TheSession.history_messages) <= conversation_limit


\* =========================================================================
\* The chat handlers
\* =========================================================================

\* The handler tasks: the dispatcher hands the updates of one chat to its
\* handlers one at a time.
Handlers == {1}

\* The accumulated content of the model's answer, as the scan of
\* request_chat_model yields it: one snapshot per chunk, each extending the last
\* (the first chunks carry no content).
Answers == << "", "a" >>
AnswerIndex(content) == CHOOSE j \in 1 .. Len(Answers) : Answers[j] = content

\* SessionManager::with_mut_session: `entry(key).or_insert(Session::new(..))`
SessionOf(ss, key) == IF key \in DOMAIN ss THEN ss[key] ELSE NewSession
with_mut_session(ss, key, s) == MapInsert(ss, key, s)

\* SessionManager::get_history_messages
mgr_get_history_messages(ss, key) ==
    IF key \in DOMAIN ss THEN get_history_messages(ss[key]) ELSE << >>

\* SessionManager::swap_session_pending_message: the sessions afterwards
swap_session_pending_message(ss, key, msg) ==
    with_mut_session(ss, key, swap_pending_message(SessionOf(ss, key), msg).session)

\* SessionManager::reset_session
reset_session(ss, key) == with_mut_session(ss, key, reset(SessionOf(ss, key)))

\* A handler task that is not running.
IdleHandler ==
    [pc |-> "idle", content |-> "", reply_to_msg |-> FALSE, msgs |-> << >>,
     timeout_times |-> 0, last_response |-> None, reply_history_message |-> None,
     need_fallback |-> FALSE, err |-> "none", history_msg_id |-> 0, raw |-> "",
     stream_err |-> FALSE]

\* An update is dispatched to a handler task that is not running.
Free(h) ==
    /\ hd[h].pc = "idle"
    /\ invocations < MaxInvocations

\* The handler returns and its locals are dropped.
Return(h, result) ==
    /\ hd' = [hd EXCEPT ![h] = IdleHandler]
    /\ last_return' = result

UserMsg(h) == Message("user", hd[h].content)

\* `timeout_times >= config.openai_api_timeout`
TimedOutStrictly(timeout_times, timeout) == timeout_times > timeout
TimedOut(timeout_times, timeout) == timeout_times >= timeout

\* `session_mgr.swap_session_pending_message(chat_id.clone(), Some(user_msg))`
StashForgets(ss, key, user_msg) == swap_session_pending_message(ss, key, None)
Stash(ss, key, user_msg) == swap_session_pending_message(ss, key, Some(user_msg))

\* `session.prepare_history_message(assistant message of res.content)`, under the lock
PrepareReplyStores(s, content, limit) ==
    LET r == prepare_history_message(s, Message("assistant", content))
    IN [r EXCEPT !.session = add_history_message(r.session, r.entry, limit)]
PrepareReply(s, content, limit) ==
    prepare_history_message(s, Message("assistant", content))

\* The closure that commits a turn: the user message is prepared and added,
\* then the reply prepared earlier is added.
CommitReplyFirst(s, user_msg, reply, limit) ==
    LET r == prepare_history_message(s, user_msg)
    IN add_history_message(add_history_message(r.session, reply, limit), r.entry, limit)
Commit(s, user_msg, reply, limit) ==
    LET r == prepare_history_message(s, user_msg)
    IN add_history_message(add_history_message(r.session, r.entry, limit), reply, limit)

\* Session::swap_pending_message(None) as handle_retry_action calls it
TakeKeeps(s) == [session |-> s, ret |-> s.pending_message]
Take(s) == swap_pending_message(s, None)

\* ---- handle_chat_message

\* A text message that is no command, from a sender is_member_allowed admits:
\* the turn starts, replying to the message, and the placeholder is sent.
NewMessage(h) ==
    /\ Free(h)
    /\ \E c \in Contents :
          hd' = [hd EXCEPT ![h] = [IdleHandler EXCEPT !.pc = "send_placeholder", !.content = c, !.reply_to_msg = TRUE]]
    /\ invocations' = invocations + 1
    /\ UNCHANGED << sessions, conversation_limit, usage, last_return,
                    taken, openai_api_timeout, renders_markdown, tvars, lvars, fvars >>

\* A text message from a sender is_member_allowed does not admit (or cannot
\* decide on): the not-allowed prompt is sent and the handler returns.
NewMessageNotAllowed(h) ==
    /\ Free(h)
    /\ hd' = hd
    /\ last_return' = "not_allowed"
    /\ invocations' = invocations + 1
    /\ UNCHANGED << sessions, conversation_limit, usage, taken, openai_api_timeout,
                    renders_markdown, tvars, lvars, fvars >>

\* ---- actually_handle_chat_message

\* `send_progress_msg.await?`: on an error the turn returns it; on success the
\* request messages are read from the session and the model is requested.
SendPlaceholderOffersRetry(h) ==
    /\ hd[h].pc = "send_placeholder"
    /\ \/ /\ hd' = [hd EXCEPT ![h].pc = "open_stream",
                               ![h].msgs = Append(mgr_get_history_messages(sessions, Chat),
                                                  UserMsg(h))]
          /\ UNCHANGED << sessions, last_return >>
       \/ /\ sessions' = swap_session_pending_message(sessions, Chat, Some(UserMsg(h)))
          /\ Return(h, "placeholder_failed")
    /\ UNCHANGED << conversation_limit, invocations, usage,
                    taken, openai_api_timeout, renders_markdown, tvars, lvars, fvars >>
SendPlaceholder(h) ==
    /\ hd[h].pc = "send_placeholder"
    /\ \/ /\ hd' = [hd EXCEPT ![h].pc = "open_stream",
                               ![h].msgs = Append(mgr_get_history_messages(sessions, Chat),
                                                  UserMsg(h))]
          /\ UNCHANGED last_return
       \/ Return(h, "placeholder_failed")
    /\ UNCHANGED << sessions, conversation_limit, invocations, usage,
                    taken, openai_api_timeout, renders_markdown, tvars, lvars, fvars >>

\* The Err arm of `match result`: the user message is stashed, and the error
\* prompt with the Retry button is sent as an edit of the placeholder.
ModelFailed(h, err, t) ==
    /\ sessions' = Stash(sessions, Chat, UserMsg(h))
    /\ hd' = [hd EXCEPT ![h].pc = "edit_error", ![h].err = err, ![h].timeout_times = t,
                         ![h].stream_err = FALSE]
    /\ taken' = FALSE
    /\ UNCHANGED last_return

\* `request_chat_model(..).await?` resolves.
OpenStream(h) ==
    /\ hd[h].pc = "open_stream"
    /\ \/ /\ hd' = [hd EXCEPT ![h].pc = "streaming", ![h].timeout_times = 0,
                               ![h].last_response = None]
          /\ UNCHANGED << sessions, last_return, taken >>
       \/ ModelFailed(h, "request", 0)
    /\ UNCHANGED << conversation_limit, invocations, usage, openai_api_timeout,
                    renders_markdown, tvars, lvars, fvars >>

\* select!: the throttled stream yields a buffer; its last item is the latest
\* snapshot. The counter is reset and the placeholder is edited (the edit's
\* result is dropped). A chunk of the model's stream that is an Err adds
\* nothing to the scan's accumulator, which is yielded as an item like any
\* other (`cur.as_ref().ok()`): stream_err records that the stream, which is
\* dropped when stream_model_result returns, has yielded one.
StreamEmit(h) ==
    /\ hd[h].pc = "streaming"
    /\ \E j \in 1 .. Len(Answers), chunk_err \in BOOLEAN :
          /\ IsSome(hd[h].last_response) => j >= AnswerIndex(Unwrap(hd[h].last_response))
          /\ hd' = [hd EXCEPT ![h].last_response = Some(Answers[j]),
                               ![h].timeout_times = 0,
                               ![h].stream_err = @ \/ chunk_err]
    /\ UNCHANGED << sessions, conversation_limit, invocations, usage, last_return,
                    taken, openai_api_timeout, renders_markdown, tvars, lvars, fvars >>

\* select!: the one-second sleep completes first. The counter is incremented;
\* at the timeout the stream has failed, otherwise the placeholder is edited.
StreamTick(h) ==
    /\ hd[h].pc = "streaming"
    /\ LET t == hd[h].timeout_times + 1
       IN IF TimedOut(t, openai_api_timeout)
          THEN ModelFailed(h, "timeout", t)
          ELSE /\ hd' = [hd EXCEPT ![h].timeout_times = t]
               /\ UNCHANGED << sessions, last_return, taken >>
    /\ UNCHANGED << conversation_limit, invocations, usage, openai_api_timeout,
                    renders_markdown, tvars, lvars, fvars >>

\* select!: the throttled stream yields None. With a last response the reply is
\* prepared and the final edit is sent; without one the model call has failed.
StreamEnd(h) ==
    /\ hd[h].pc = "streaming"
    /\ IF IsSome(hd[h].last_response)
       THEN LET r == PrepareReply(SessionOf(sessions, Chat),
                                  Unwrap(hd[h].last_response), conversation_limit)
            IN /\ sessions' = with_mut_session(sessions, Chat, r.session)
               /\ hd' = [hd EXCEPT ![h].reply_history_message = Some(r.entry),
                            ![h].stream_err = FALSE,
                            ![h].need_fallback = ~renders_markdown,
                            ![h].pc = IF renders_markdown THEN "edit_formatted"
                                                          ELSE "edit_raw"]
               /\ UNCHANGED << last_return, taken >>
       ELSE ModelFailed(h, "empty", hd[h].timeout_times)
    /\ UNCHANGED << conversation_limit, invocations, usage, openai_api_timeout,
                    renders_markdown, tvars, lvars, fvars >>

\* The final edit has succeeded: both messages are committed, and the usage is
\* reported when the turn has a message to reply to whose sender has a username.
FinalEditOk(h) ==
    /\ sessions' = with_mut_session(sessions, Chat,
           Commit(SessionOf(sessions, Chat), UserMsg(h),
                  Unwrap(hd[h].reply_history_message), conversation_limit))
    /\ \/ /\ hd[h].reply_to_msg
          /\ hd' = [hd EXCEPT ![h].pc = "add_usage"]
          /\ UNCHANGED last_return
       \/ Return(h, "success")

\* The edit with the parsed content resolves; an error falls back to the raw content.
EditFormattedHardFailure(h) ==
    /\ hd[h].pc = "edit_formatted"
    /\ \/ FinalEditOk(h)
       \/ /\ Return(h, "final_edit_failed")
          /\ UNCHANGED sessions
    /\ UNCHANGED << conversation_limit, invocations, usage, taken, openai_api_timeout,
                    renders_markdown, tvars, lvars, fvars >>
EditFormatted(h) ==
    /\ hd[h].pc = "edit_formatted"
    /\ \/ FinalEditOk(h)
       \/ /\ hd' = [hd EXCEPT ![h].pc = "edit_raw", ![h].need_fallback = TRUE]
          /\ UNCHANGED << sessions, last_return >>
    /\ UNCHANGED << conversation_limit, invocations, usage, taken, openai_api_timeout,
                    renders_markdown, tvars, lvars, fvars >>

\* The edit with the raw content resolves: `.await?`.
EditRaw(h) ==
    /\ hd[h].pc = "edit_raw"
    /\ \/ FinalEditOk(h)
       \/ /\ Return(h, "final_edit_failed")
          /\ UNCHANGED sessions
    /\ UNCHANGED << conversation_limit, invocations, usage, taken, openai_api_timeout,
                    renders_markdown, tvars, lvars, fvars >>

\* stats_mgr.add_usage resolves (an error is logged): one more call was made.
AddUsage(h) ==
    /\ hd[h].pc = "add_usage"
    /\ Return(h, "success")
    /\ usage' = usage + 1
    /\ UNCHANGED << sessions, conversation_limit, invocations, taken, openai_api_timeout,
                    renders_markdown, tvars, lvars, fvars >>

\* The edit with the error prompt and the Retry button resolves; an error is logged.
EditErrorReportsUsage(h) ==
    /\ hd[h].pc = "edit_error"
    /\ Return(h, "retry_offered")
    /\ usage' = usage + 1
    /\ UNCHANGED << sessions, conversation_limit, invocations,
                    taken, openai_api_timeout, renders_markdown, tvars, lvars, fvars >>
EditError(h) ==
    /\ hd[h].pc = "edit_error"
    /\ \/ Return(h, "retry_offered")
       \/ Return(h, "error_edit_failed")
    /\ UNCHANGED << sessions, conversation_limit, invocations, usage,
                    taken, openai_api_timeout, renders_markdown, tvars, lvars, fvars >>

\* ---- handle_retry_action

\* A "/retry" callback query with a message: the error message's deletion is awaited.
RetryInvoke(h) ==
    /\ Free(h)
    /\ hd' = [hd EXCEPT ![h] = [IdleHandler EXCEPT !.pc = "retry_delete"]]
    /\ invocations' = invocations + 1
    /\ UNCHANGED << sessions, conversation_limit, usage, last_return,
                    taken, openai_api_timeout, renders_markdown, tvars, lvars, fvars >>

\* delete_message resolves. On an error the handler returns. Otherwise the
\* pending message is taken: with none there is nothing to retry; with one a
\* turn starts with its content and no message to reply to.
RetryDelete(h) ==
    /\ hd[h].pc = "retry_delete"
    /\ \/ /\ Return(h, "delete_failed")
          /\ UNCHANGED << sessions, taken >>
       \/ LET r == Take(SessionOf(sessions, Chat))
          IN /\ sessions' = with_mut_session(sessions, Chat, r.session)
             /\ IF IsNone(r.ret)
                THEN /\ Return(h, "nothing_to_retry")
                     /\ UNCHANGED taken
                ELSE /\ hd' = [hd EXCEPT ![h].pc = "send_placeholder",
                                         ![h].content = Unwrap(r.ret).content,
                                         ![h].reply_to_msg = FALSE]
                     /\ taken' = TRUE
                     /\ UNCHANGED last_return
    /\ UNCHANGED << conversation_limit, invocations, usage, openai_api_timeout,
                    renders_markdown, tvars, lvars, fvars >>

\* ---- reset_session

\* The /reset command: the session is reset, then the reset prompt is sent.
ResetInvoke(h) ==
    /\ Free(h)
    /\ sessions' = reset_session(sessions, Chat)
    /\ hd' = [hd EXCEPT ![h] = [IdleHandler EXCEPT !.pc = "send_reset"]]
    /\ invocations' = invocations + 1
    /\ taken' = FALSE
    /\ UNCHANGED << conversation_limit, usage, last_return, openai_api_timeout,
                    renders_markdown, tvars, lvars, fvars >>

ResetSent(h) ==
    /\ hd[h].pc = "send_reset"
    /\ Return(h, "reset")
    /\ UNCHANGED << sessions, conversation_limit, invocations, usage,
                    taken, openai_api_timeout, renders_markdown, tvars, lvars, fvars >>

\* ---- handle_show_raw_action

\* `session_mgr.with_mut_session(chat_id, |session| session.get_history_message(id))`:
\* the sessions afterwards (the entry is created when absent) and the message found
ShowRawLookupLatest(ss, key, id) ==
    LET s == SessionOf(ss, key)
        all == get_history_messages(s)
    IN [sessions |-> with_mut_session(ss, key, s),
        ret |-> IF all = << >> THEN None ELSE Some(all[Len(all)])]
ShowRawLookup(ss, key, id) ==
    LET s == SessionOf(ss, key)
    IN [sessions |-> with_mut_session(ss, key, s), ret |-> get_history_message(s, id)]

\* A callback query whose data is "/show_raw:" followed by an id. Without a
\* message the handler declines it. Otherwise the id is looked up, and either
\* the edit of the displayed message to the stored content or the stale
\* notice is awaited.
ShowRawInvoke(h) ==
    /\ Free(h)
    /\ invocations' = invocations + 1
    /\ \/ /\ hd' = hd
          /\ last_return' = "show_raw_no_message"
          /\ UNCHANGED sessions
       \/ \E id \in Ids :
             LET r == ShowRawLookup(sessions, Chat, id)
             IN /\ sessions' = r.sessions
                /\ hd' = [hd EXCEPT ![h] =
                       [IdleHandler EXCEPT
                           !.pc = IF IsSome(r.ret) THEN "show_raw_edit" ELSE "show_raw_stale",
                           !.history_msg_id = id,
                           !.raw = IF IsSome(r.ret) THEN Unwrap(r.ret).content ELSE ""]]
                /\ UNCHANGED last_return
    /\ UNCHANGED << conversation_limit, usage, taken, openai_api_timeout,
                    renders_markdown, tvars, lvars, fvars >>

\* `let _ = bot.edit_message_text(..).await` or `let _ = bot.send_message(..).await`
\* resolves, its result ignored, and the handler returns true.
ShowRawReplied(h) ==
    /\ hd[h].pc \in {"show_raw_edit", "show_raw_stale"}
    /\ Return(h, IF hd[h].pc = "show_raw_edit" THEN "raw_shown" ELSE "stale_notified")
    /\ UNCHANGED << sessions, conversation_limit, invocations, usage,
                    taken, openai_api_timeout, renders_markdown, tvars, lvars, fvars >>

\* SessionManager::new(config), no handler running, for every configuration
Init ==
    /\ sessions = EmptyMap
    /\ conversation_limit \in 0 .. MaxLimit
    /\ openai_api_timeout \in 0 .. MaxTimeout
    /\ renders_markdown \in BOOLEAN
    /\ hd = [h \in Handlers |-> IdleHandler]
    /\ invocations = 0
    /\ usage = 0
    /\ last_return = "none"
    /\ taken = FALSE
    /\ lock = << >> /\ call = << >>
    /\ md = << >> /\ bp = << >> /\ ca = << >>
    \* the throttle is not part of this machine
    /\ input_len = 0 /\ upstream = 0 /\ stream_ready = << >> /\ stream_closed = FALSE
    /\ interval = 0 /\ buffer = None /\ active_sleep = None /\ done = FALSE /\ now = 0
    /\ stream_waker = FALSE /\ sleep_waker = FALSE /\ woken = FALSE
    /\ emitted = << >> /\ out_ended = FALSE /\ poll_result = "none"

Next ==
    \E h \in Handlers :
        \/ NewMessage(h) \/ NewMessageNotAllowed(h)
        \/ SendPlaceholder(h) \/ OpenStream(h)
        \/ StreamEmit(h) \/ StreamTick(h) \/ StreamEnd(h)
        \/ EditFormatted(h) \/ EditRaw(h) \/ AddUsage(h) \/ EditError(h)
        \/ RetryInvoke(h) \/ RetryDelete(h)
        \/ ResetInvoke(h) \/ ResetSent(h)
        \/ ShowRawInvoke(h) \/ ShowRawReplied(h)

Spec == Init /\ [][Next]_vars

\* ------------------------------------------------------- ThrottleBuffer claims

Input == [i \in 1 .. input_len |-> i]
EmittedBufs == [i \in 1 .. Len(emitted) |-> emitted[i].buf]

\* C1: once the output stream has completed, the emitted buffers, concatenated,
\* are the input sequence, in order, nothing dropped or duplicated; so the last
\* element of the last emitted buffer is the last input item.
C1_NoDropDupReorder ==
    out_ended =>
        /\ Flatten(EmittedBufs) = Input
        /\ input_len > 0 =>
              /\ emitted /= << >>
              /\ LET last == emitted[Len(emitted)].buf IN last[Len(last)] = input_len

\* C1 witness: a completed stream whose three input items came out in two or more buffers.
C1_Witness == out_ended /\ input_len = 3 /\ Len(emitted) >= 2

\* C7: any two consecutive emissions, the final flush included, are at least
\* the interval apart, under every schedule of polls.
C7_MinSeparation ==
    \A i \in 2 .. Len(emitted) : emitted[i].at - emitted[i - 1].at >= interval

\* C8: when the input completes with items buffered, that buffer is emitted
\* exactly once more and then end-of-stream is reported; no emitted buffer is
\* empty, and nothing is emitted after end-of-stream.
C8_FinalFlush ==
    /\ [](\A i \in 1 .. Len(emitted) : emitted[i].buf /= << >>)
    /\ [][(done /\ IsSome(buffer)) =>
             \/ /\ emitted' = emitted
                /\ buffer' = buffer
                /\ out_ended' = out_ended
             \/ /\ Len(emitted') = Len(emitted) + 1
                /\ SubSeq(emitted', 1, Len(emitted)) = emitted
                /\ emitted'[Len(emitted')].buf = Unwrap(buffer)
                /\ IsNone(buffer')
                /\ out_ended' = out_ended]_tvars
    /\ [][(done /\ IsNone(buffer)) => emitted' = emitted /\ buffer' = buffer]_tvars
    /\ [][out_ended => out_ended' /\ emitted' = emitted]_tvars
    /\ (done /\ IsSome(buffer)) ~> out_ended

\* C8 witness: the stream has ended and its last emission was the rest buffer.
C8_Witness == out_ended /\ emitted /= << >> /\ emitted[Len(emitted)].rest

\* C9: if the input completes while nothing is buffered, the throttled stream
\* completes, reporting end-of-stream, with no extra emission.
C9_CompletesWhenEmpty ==
    /\ [][(done /\ IsNone(buffer)) => emitted' = emitted]_tvars
    /\ (done /\ IsNone(buffer)) ~> out_ended

\* ------------------------------------------------------------ Handler claims

\* The conversation's session as the handlers see it, and its parts.
Conv == SessionOf(sessions, Chat)
PoolEntries == iter(Conv.history_messages)
PoolMsgs == [k \in 1 .. Len(PoolEntries) |-> PoolEntries[k].message]

\* The step in which handler h's final edit succeeds and the turn commits.
Commits(h) ==
    /\ hd[h].pc \in {"edit_formatted", "edit_raw"}
    /\ \/ hd'[h].pc = "add_usage"
       \/ hd'[h].pc = "idle" /\ last_return' = "success"

\* The step in which the model call of handler h's turn fails.
Fails(h) ==
    /\ hd[h].pc \in {"open_stream", "streaming"}
    /\ hd'[h].pc = "edit_error"

\* The step in which the final edit of handler h's turn fails.
FinalEditFails(h) ==
    /\ hd[h].pc = "edit_raw"
    /\ hd'[h].pc = "idle"
    /\ last_return' = "final_edit_failed"

\* The step in which a retry's deletion of the error message fails.
DeleteFails(h) ==
    /\ hd[h].pc = "retry_delete"
    /\ hd'[h].pc = "idle"
    /\ last_return' = "delete_failed"

\* The step in which a retry whose deletion succeeded looks into the pending slot.
RetryLooks(h) ==
    /\ hd[h].pc = "retry_delete"
    /\ hd'[h].pc /= "retry_delete"
    /\ ~DeleteFails(h)

\* C3: the step that commits a turn (clean completion with a snapshot, final
\* edit succeeded) appends the user message and then the assistant message with
\* the last snapshot's content to the pool as it was when the turn began,
\* evicting from the front only, no more than the limit requires, and leaves the
\* system slot and the pending slot unchanged.
C3_CommitAddsUserThenReply ==
    [][\A h \in Handlers : Commits(h) =>
          LET old == PoolMsgs
              new == PoolMsgs'
              both == old \o << UserMsg(h),
                                Message("assistant", Unwrap(hd[h].last_response)) >>
          IN /\ IsSome(hd[h].last_response)
             /\ Append(old, UserMsg(h)) = hd[h].msgs
             /\ Len(new) >= 1
             /\ Len(new) <= Len(both)
             /\ new = SubSeq(both, Len(both) - Len(new) + 1, Len(both))
             /\ Len(new) >= Min(Len(both), conversation_limit)
             /\ Conv'.system_message = Conv.system_message
             /\ Conv'.pending_message = Conv.pending_message]_vars

\* C3 witness: a first turn has returned successfully, the pool holds its user
\* message and then the reply, and its usage was recorded once.
C3_Witness ==
    /\ last_return = "success"
    /\ usage = 1
    /\ invocations = 1
    /\ PoolMsgs = << Message("user", "u1"), Message("assistant", "a") >>

\* C4: the step in which the model call fails (request not opened, stall
\* timeout, or completion without a snapshot) stores the turn's user message in
\* the pending slot and goes on to edit the placeholder to the error prompt,
\* with the pool and the system slot as they were when the turn began; a clean
\* completion has a snapshot; the error edit changes no session.
C4_FailureStashes ==
    /\ [][\A h \in Handlers : Fails(h) =>
             /\ hd'[h].err \in {"request", "timeout", "empty"}
             /\ Conv'.pending_message = Some(UserMsg(h))
             /\ PoolEntries' = PoolEntries
             /\ Append(PoolMsgs', UserMsg(h)) = hd[h].msgs
             /\ Conv'.system_message = Conv.system_message]_vars
    /\ [][\A h \in Handlers :
             (hd[h].pc = "streaming" /\ hd'[h].pc \in {"edit_formatted", "edit_raw"})
                 => IsSome(hd[h].last_response)]_vars
    /\ [][\A h \in Handlers : (hd[h].pc = "edit_error" /\ hd'[h] /= hd[h]) =>
             /\ hd'[h].pc = "idle"
             /\ last_return' \in {"retry_offered", "error_edit_failed"}
             /\ sessions' = sessions]_vars

\* C4 witness: a stream that completed without a snapshot, in a conversation
\* that has history: the user message is pending and the error edit is next.
C4_Witness ==
    /\ hd[1].pc = "edit_error"
    /\ hd[1].err = "empty"
    /\ Conv.pending_message = Some(UserMsg(1))
    /\ PoolMsgs /= << >>

\* C5: the pool's entries change only in the step in which a final edit
\* succeeds (or the session is reset); until then the reply is prepared, its id
\* allocated, and not stored; the step in which the final edit fails changes no
\* session.
C5_TwoPhase ==
    /\ [](\A h \in Handlers : hd[h].pc \in {"edit_formatted", "edit_raw"} =>
             /\ IsSome(hd[h].reply_history_message)
             /\ Unwrap(hd[h].reply_history_message).id = Conv.history_messages.current_id
             /\ Unwrap(hd[h].reply_history_message) \notin
                    {PoolEntries[k] : k \in 1 .. Len(PoolEntries)}
             /\ Append(PoolMsgs, UserMsg(h)) = hd[h].msgs)
    /\ [][PoolEntries' /= PoolEntries =>
             \E h \in Handlers :
                 \/ Commits(h)
                 \/ hd[h].pc = "idle" /\ hd'[h].pc = "send_reset"]_vars
    /\ [][\A h \in Handlers : FinalEditFails(h) =>
             /\ sessions' = sessions
             /\ Append(PoolMsgs', UserMsg(h)) = hd[h].msgs]_vars

\* C5 witness: a first turn's final edit has failed: an id was allocated for the
\* reply, and the pool and the pending slot are empty.
C5_Witness ==
    /\ last_return = "final_edit_failed"
    /\ invocations = 1
    /\ Conv.history_messages.current_id = 1
    /\ PoolMsgs = << >>
    /\ Conv.pending_message = None

\* C6 as stated: every retry invocation that finds a message in the pending
\* slot retrieves it, clears the slot and starts a turn.
C6_EveryRetryTakes ==
    [][\A h \in Handlers :
          (hd[h].pc = "retry_delete" /\ hd'[h].pc /= "retry_delete"
              /\ IsSome(Conv.pending_message))
          => /\ IsNone(Conv'.pending_message)
             /\ hd'[h].pc = "send_placeholder"]_vars

\* C6, amended: a failed turn leaves its user message in the pending slot; a
\* retry whose deletion of the error message fails changes nothing; the first
\* retry whose deletion succeeds takes the message, clears the slot and starts a
\* turn with that content and nothing to reply to; the slot is filled only by a
\* failing turn, so a further retry finds it empty and starts no turn, the
\* session as it was.
C6_RetryOneShot ==
    /\ [][\A h \in Handlers : Fails(h) => Conv'.pending_message = Some(UserMsg(h))]_vars
    /\ [][\A h \in Handlers : DeleteFails(h) => sessions' = sessions]_vars
    /\ [][\A h \in Handlers : RetryLooks(h) =>
             IF IsSome(Conv.pending_message)
             THEN /\ Conv' = [Conv EXCEPT !.pending_message = None]
                  /\ hd'[h].pc = "send_placeholder"
                  /\ hd'[h].content = Unwrap(Conv.pending_message).content
                  /\ ~hd'[h].reply_to_msg
             ELSE /\ Conv' = Conv
                  /\ hd'[h].pc = "idle"
                  /\ last_return' = "nothing_to_retry"]_vars
    /\ [][(IsNone(Conv.pending_message) /\ IsSome(Conv'.pending_message))
             => \E h \in Handlers : Fails(h)]_vars
    /\ [](taken => IsNone(Conv.pending_message))

\* C6 witness: after a retry took the pending message, and with no failure
\* since, a further retry has found nothing to retry.
C6_Witness ==
    /\ taken
    /\ last_return = "nothing_to_retry"
    /\ hd[1].pc = "idle"

\* C10 as stated: the stream fails with a timeout only when the counter exceeds
\* the tick budget.
C10_TimeoutWhenExceeds ==
    \A h \in Handlers : hd[h].err = "timeout" => hd[h].timeout_times > openai_api_timeout

\* C10, amended: while the loop runs the counter is below the budget; a step of
\* the loop either counts one tick or is an emission and leaves the counter at
\* zero; the stream fails with a timeout exactly in the tick that brings the
\* counter to the budget (the first tick when the budget is zero); a timeout
\* goes to the error edit, never to a reply.
C10_StallDetector ==
    /\ [](\A h \in Handlers : hd[h].pc = "streaming" =>
             hd[h].timeout_times < Max(openai_api_timeout, 1))
    /\ [][\A h \in Handlers :
             (hd[h].pc = "streaming" /\ hd'[h].pc = "streaming") =>
                 /\ hd'[h].timeout_times \in {0, hd[h].timeout_times + 1}
                 /\ hd'[h].last_response /= hd[h].last_response
                        => hd'[h].timeout_times = 0
                 /\ hd'[h].timeout_times = hd[h].timeout_times + 1
                        => hd'[h].timeout_times < openai_api_timeout]_vars
    /\ [][\A h \in Handlers :
             (hd[h].pc = "streaming" /\ hd'[h].err = "timeout") =>
                 /\ hd'[h].timeout_times = hd[h].timeout_times + 1
                 /\ hd'[h].timeout_times >= openai_api_timeout
                 /\ hd'[h].timeout_times = Max(openai_api_timeout, 1)]_vars
    /\ [](\A h \in Handlers : hd[h].err = "timeout" =>
             /\ hd[h].pc = "edit_error"
             /\ IsNone(hd[h].reply_history_message)
             /\ Conv.pending_message = Some(UserMsg(h)))

\* C10 witness: a stream that emitted a snapshot, resetting the counter, then
\* stalled and timed out with the counter at a budget of two ticks.
C10_Witness ==
    /\ hd[1].err = "timeout"
    /\ openai_api_timeout = 2
    /\ hd[1].timeout_times = 2
    /\ IsSome(hd[1].last_response)

\* The step in which the stall timeout fires for handler h's turn.
TimeoutFires(h) ==
    /\ hd[h].pc = "streaming"
    /\ hd'[h].err = "timeout"

\* C11: once the stall timeout has fired for a turn, the turn is at the error
\* edit with no reply prepared; the step in which it fires stashes the user
\* message and changes neither the pool, the last snapshot nor the usage; the
\* only step the turn takes afterwards is its return, which changes no
\* session and reports no usage.
C11_NothingAfterTimeout ==
    /\ [](\A h \in Handlers : hd[h].err = "timeout" =>
             /\ hd[h].pc = "edit_error"
             /\ IsNone(hd[h].reply_history_message))
    /\ [][\A h \in Handlers : TimeoutFires(h) =>
             /\ PoolEntries' = PoolEntries
             /\ Conv'.pending_message = Some(UserMsg(h))
             /\ hd'[h].last_response = hd[h].last_response
             /\ usage' = usage]_vars
    /\ [][\A h \in Handlers : (hd[h].err = "timeout" /\ hd'[h] /= hd[h]) =>
             /\ hd'[h] = IdleHandler
             /\ last_return' \in {"retry_offered", "error_edit_failed"}
             /\ sessions' = sessions
             /\ usage' = usage]_vars

\* C11 witness: the timeout has fired in a turn whose stream had already
\* delivered content, in a conversation with committed history and usage.
C11_Witness ==
    /\ hd[1].err = "timeout"
    /\ hd[1].last_response = Some("a")
    /\ PoolMsgs /= << >>
    /\ usage >= 1

\* The step in which an inbound message is dispatched to handler h and its turn starts.
MessageArrives(h) ==
    /\ hd[h].pc = "idle"
    /\ hd'[h].pc = "send_placeholder"

\* The step in which sending the placeholder of handler h's turn fails.
PlaceholderFails(h) ==
    /\ hd[h].pc = "send_placeholder"
    /\ hd'[h].pc = "idle"

\* C12: a turn started by an inbound message has, until its placeholder is
\* sent, requested nothing from the model and changed no session; when sending
\* the placeholder fails the handler returns at once (no stream opened, no
\* error prompt with a Retry control) with the sessions, id counter included,
\* and the usage as they were when the message arrived.
C12_PlaceholderFailureAborts ==
    /\ [][\A h \in Handlers : MessageArrives(h) =>
             /\ hd'[h].reply_to_msg
             /\ sessions' = sessions]_vars
    /\ [](\A h \in Handlers : hd[h].pc = "send_placeholder" =>
             /\ hd[h].msgs = << >>
             /\ IsNone(hd[h].last_response)
             /\ hd[h].err = "none")
    /\ [][\A h \in Handlers : (PlaceholderFails(h) /\ hd[h].reply_to_msg) =>
             /\ hd'[h] = IdleHandler
             /\ last_return' = "placeholder_failed"
             /\ sessions' = sessions
             /\ usage' = usage]_vars
    /\ [][\A h \in Handlers :
             (hd[h].pc = "send_placeholder" /\ hd'[h].pc \notin {"send_placeholder", "idle"})
                 => hd'[h].pc = "open_stream"]_vars

\* C12 witness: the placeholder of a turn started by an inbound message (no
\* retry has taken a message) could not be sent, in a conversation with history.
C12_Witness ==
    /\ last_return = "placeholder_failed"
    /\ hd[1].pc = "idle"
    /\ ~taken
    /\ PoolMsgs /= << >>

\* The step in which the edit carrying the formatted variant fails.
FormattedEditFails(h) ==
    /\ hd[h].pc = "edit_formatted"
    /\ hd'[h] /= hd[h]
    /\ ~Commits(h)

\* C13: the formatted edit is tried only when markup rendering is enabled; when
\* it fails the turn goes on to the edit with the raw content, the reply still
\* prepared and no session changed (nothing stashed for a retry); the raw edit
\* either fails, or commits the turn with the reply as the pool's last entry.
C13_RawFallback ==
    /\ [](\A h \in Handlers :
             /\ hd[h].pc = "edit_formatted" => (renders_markdown /\ ~hd[h].need_fallback)
             /\ hd[h].pc = "edit_raw" => hd[h].need_fallback)
    /\ [][\A h \in Handlers : FormattedEditFails(h) =>
             /\ hd'[h] = [hd[h] EXCEPT !.pc = "edit_raw", !.need_fallback = TRUE]
             /\ sessions' = sessions
             /\ UNCHANGED last_return]_vars
    /\ [][\A h \in Handlers : (hd[h].pc = "edit_raw" /\ hd'[h] /= hd[h]) =>
             \/ FinalEditFails(h)
             \/ /\ Commits(h)
                /\ PoolEntries' /= << >>
                /\ PoolEntries'[Len(PoolEntries')] = Unwrap(hd[h].reply_history_message)
                /\ Conv'.pending_message = Conv.pending_message]_vars

\* C13 witness: with markup rendering enabled the formatted edit failed, the
\* raw edit succeeded, and the turn has committed its two messages.
C13_Witness ==
    /\ renders_markdown
    /\ hd[1].pc = "add_usage"
    /\ hd[1].need_fallback
    /\ PoolMsgs = << UserMsg(1), Message("assistant", "a") >>

\* C14: every turn that completes successfully, started by an inbound message
\* or by a retry, goes on to report its usage to the usage store; usage is
\* reported in no other step.
C14_UsageOncePerSuccess ==
    /\ [][\A h \in Handlers : Commits(h) => hd'[h].pc = "add_usage"]_vars
    /\ [][usage' /= usage =>
             \E h \in Handlers : hd[h].pc = "add_usage" /\ usage' = usage + 1]_vars

\* =========================================================================
\* SessionManager under concurrent tasks
\* =========================================================================

\* Handler tasks run on the runtime's worker threads; each works on one
\* conversation and, between the external calls it awaits, calls the methods
\* of SessionManager, every one of which goes through with_mut_inner.
Tasks == {1, 2}
Keys == {"c1", "c2"}
Methods == {"reset_session", "get_history_messages", "swap_session_pending_message",
            "prepare", "commit", "get_history_message"}
PendingArgs == {None, Some(Message("user", "u1"))}
\* The ids a Show Raw Contents control can carry
LookupIds == {0, 1}

\* `f(&mut inner_mut)` has returned and with_mut_inner returns: the guard
\* `inner_mut` goes out of scope.
KeepGuard(t) == Some(t)
DropGuard(t) == None

\* The external call the task awaited resolves, and the task calls a method.
CallMethod(t) ==
    /\ call[t].pc = "awaiting"
    /\ call[t].calls < MaxCalls
    /\ \E m \in Methods, msg \in PendingArgs, id \in LookupIds :
          /\ m = "commit" => IsSome(call[t].reply)
          /\ m /= "swap_session_pending_message" => msg = None
          /\ m /= "get_history_message" => id = 0
          /\ call' = [call EXCEPT ![t].pc = "lock_wait", ![t].method = m, ![t].msg = msg,
                                  ![t].id = id, ![t].calls = @ + 1]
    /\ UNCHANGED << lock, svars, tvars, ovars, fvars >>

\* `Mutex::lock` returns once no other guard of the mutex is alive.
LockIgnored(l) == TRUE
LockFree(l) == IsNone(l)

\* `self.inner.lock().unwrap()`: the thread blocks until the mutex is free.
LockAcquire(t) ==
    /\ call[t].pc = "lock_wait"
    /\ LockFree(lock)
    /\ lock' = Some(t)
    /\ call' = [call EXCEPT ![t].pc = "in_closure"]
    /\ UNCHANGED << svars, tvars, ovars, fvars >>

\* The edit that renders the answer reaches the chat while the task awaits
\* its result: the message now shows the Show Raw Contents control, whose
\* callback data carries the id of the reply prepared before.
EditShown(t) ==
    /\ call[t].pc = "awaiting"
    /\ IsSome(call[t].reply)
    /\ ~call[t].shown
    /\ call' = [call EXCEPT ![t].shown = TRUE]
    /\ UNCHANGED << lock, svars, tvars, ovars, fvars >>

\* The first two statements of the closure that commits a turn, run on the
\* locked map: the user message is prepared and added.
CommitUser(t) ==
    /\ call[t].pc = "in_closure"
    /\ lock = Some(t)
    /\ call[t].method = "commit"
    /\ LET key == call[t].key
           r == prepare_history_message(SessionOf(sessions, key), Message("user", "u1"))
       IN /\ sessions' = with_mut_session(sessions, key,
                 add_history_message(r.session, r.entry, conversation_limit))
          /\ call' = [call EXCEPT ![t].pc = "in_commit", ![t].user = Some(r.entry)]
    /\ UNCHANGED << lock, conversation_limit, tvars, ovars, fvars >>

\* The closure runs on the locked map (the one that commits a turn: its last
\* statement, which adds the reply), and with_mut_inner returns. `took`
\* records, for each task, that its swap_session_pending_message(None) has
\* returned a message and none was stashed since.
LockRelease(t) ==
    /\ call[t].pc = IF call[t].method = "commit" THEN "in_commit" ELSE "in_closure"
    /\ lock = Some(t)
    /\ LET key == call[t].key
           s == SessionOf(sessions, key)
           prepared == PrepareReply(s, "a", conversation_limit)
           swapped == swap_pending_message(s, call[t].msg)
       IN CASE call[t].method = "reset_session" ->
                 /\ sessions' = reset_session(sessions, key)
                 /\ call' = [call EXCEPT ![t].pc = "awaiting"]
            [] call[t].method = "get_history_messages" ->
                 /\ sessions' = sessions
                 /\ call' = [call EXCEPT ![t].pc = "awaiting"]
            [] call[t].method = "get_history_message" ->
                 /\ sessions' = ShowRawLookup(sessions, key, call[t].id).sessions
                 /\ call' = [call EXCEPT ![t].pc = "awaiting"]
            [] call[t].method = "swap_session_pending_message" ->
                 /\ sessions' = with_mut_session(sessions, key, swapped.session)
                 /\ call' = [u \in Tasks |->
                       [call[u] EXCEPT
                          !.pc = IF u = t THEN "awaiting" ELSE @,
                          !.took = IF IsSome(call[t].msg)
                                   THEN IF call[u].key = key THEN FALSE ELSE @
                                   ELSE IF u = t THEN IsSome(swapped.ret) ELSE @]]
            [] call[t].method = "prepare" ->
                 /\ sessions' = with_mut_session(sessions, key, prepared.session)
                 /\ call' = [call EXCEPT ![t].pc = "awaiting",
                                         ![t].reply = Some(prepared.entry),
                                         ![t].shown = FALSE]
            [] call[t].method = "commit" ->
                 /\ sessions' = with_mut_session(sessions, key,
                        add_history_message(s, Unwrap(call[t].reply), conversation_limit))
                 /\ call' = [call EXCEPT ![t].pc = "awaiting", ![t].reply = None,
                                         ![t].user = None, ![t].shown = FALSE]
    /\ lock' = DropGuard(t)
    /\ UNCHANGED << conversation_limit, tvars, ovars, fvars >>

\* SessionManager::new(config); every task awaits its first external call
LockInit ==
    /\ sessions = EmptyMap
    /\ conversation_limit \in 1 .. MaxLimit
    /\ lock = None
    /\ call \in [Tasks -> {[pc |-> "awaiting", method |-> "none", key |-> k, msg |-> None,
                            id |-> 0, reply |-> None, user |-> None, shown |-> FALSE,
                            took |-> FALSE, calls |-> 0] : k \in Keys}]
    \* the throttle and the chat handlers are not part of this machine
    /\ input_len = 0 /\ upstream = 0 /\ stream_ready = << >> /\ stream_closed = FALSE
    /\ interval = 0 /\ buffer = None /\ active_sleep = None /\ done = FALSE /\ now = 0
    /\ stream_waker = FALSE /\ sleep_waker = FALSE /\ woken = FALSE
    /\ emitted = << >> /\ out_ended = FALSE /\ poll_result = "none"
    /\ hd = << >> /\ invocations = 0 /\ usage = 0 /\ last_return = "none"
    /\ taken = FALSE
    /\ openai_api_timeout = 0 /\ renders_markdown = FALSE
    /\ md = << >> /\ bp = << >> /\ ca = << >>

LockNext ==
    \E t \in Tasks :
        \/ CallMethod(t) \/ LockAcquire(t) \/ CommitUser(t) \/ LockRelease(t)
        \/ EditShown(t)

LockSpec == LockInit /\ [][LockNext]_vars

IsAdd(entry) ==
    TheSession' = add_history_message(TheSession, entry, conversation_limit)

Entries == {HistoryMessage(id, Message(role, content)) :
                id \in Ids, role \in Roles, content \in Contents}

\* C16: add_history_message of a non-system message into a pool that holds
\* conversation_limit entries evicts exactly the earliest-inserted entry: the
\* pool holds conversation_limit entries afterwards, the ordering is the old
\* one without its head and with the new id at the end, and the evicted id is
\* no longer found by get_history_message.
C16_EvictsOldestAtLimit ==
    [][\A entry \in Entries :
          (/\ IsAdd(entry)
           /\ entry.message.role /= "system"
           /\ len(TheSession.history_messages) = conversation_limit)
          => /\ len(TheSession'.history_messages) = conversation_limit
             /\ TheSession.history_messages.deque /= << >>
             /\ TheSession'.history_messages.deque =
                    Append(Tail(TheSession.history_messages.deque), entry.id)
             /\ IsNone(get_history_message(TheSession',
                                           Head(TheSession.history_messages.deque)))]_vars

\* The messages with the system role among a sequence of messages.
SystemMessages(msgs) == SelectSeq(msgs, LAMBDA m : m.role = "system")

\* C17: in every reachable session the pool holds no system message and the
\* messages of the session hold at most one, the slot's; from every reachable
\* session, add_history_message with a system-role entry sets the system slot
\* to that message and leaves the pool (id counter, entries, order, index) and
\* the pending slot unchanged.
C17_OneSystemMessage ==
    /\ \A k \in 1 .. Len(iter(TheSession.history_messages)) :
           iter(TheSession.history_messages)[k].message.role /= "system"
    /\ Len(SystemMessages(get_history_messages(TheSession))) =
           (IF IsSome(TheSession.system_message) THEN 1 ELSE 0)
    /\ \A entry \in Entries : entry.message.role = "system" =>
           LET after == add_history_message(TheSession, entry, conversation_limit)
           IN /\ after.system_message = Some(entry.message)
              /\ after.history_messages = TheSession.history_messages
              /\ after.pending_message = TheSession.pending_message

\* C17 witness: a session whose system slot is set, whose pool is full and
\* whose pending slot holds a message.
C17_Witness ==
    /\ TheSession.system_message = Some(Message("system", "u2"))
    /\ conversation_limit = 2
    /\ len(TheSession.history_messages) = 2
    /\ IsSome(TheSession.pending_message)

Messages == {Message(role, content) : role \in Roles, content \in Contents}

\* What prepare_history_message(message) does from the current session, but for
\* whether the entry can be retrieved: the id is the previous id plus one,
\* wrapping at the bound; the entry carries the message; the system slot, the
\* pool's entries and order, and the pending slot are unchanged.
PrepareAllocates(message) ==
    LET r == prepare_history_message(TheSession, message)
        id == TheSession.history_messages.current_id
    IN /\ r.entry.id = (IF id = IdMax THEN IdMin ELSE id + 1)
       /\ r.entry.message = message
       /\ r.session.history_messages.current_id = r.entry.id
       /\ r.session.history_messages.messages = TheSession.history_messages.messages
       /\ r.session.history_messages.deque = TheSession.history_messages.deque
       /\ r.session.system_message = TheSession.system_message
       /\ r.session.pending_message = TheSession.pending_message

\* C18 as stated: from every reachable session, prepare_history_message
\* allocates the next id and changes nothing else, and the returned entry's id
\* is not found by get_history_message.
C18_PreparedNotRetrievable ==
    \A message \in Messages :
        /\ PrepareAllocates(message)
        /\ LET r == prepare_history_message(TheSession, message)
           IN IsNone(get_history_message(r.session, r.entry.id))

\* C18, amended: as above, the entry's id not being found unless an entry with
\* that id was already retained; once add_history_message is called with the
\* entry (of a user or assistant message), its id finds its message.
C18_PrepareAllocatesOnly ==
    \A message \in Messages :
        /\ PrepareAllocates(message)
        /\ LET r == prepare_history_message(TheSession, message)
               added == add_history_message(r.session, r.entry, conversation_limit)
           IN /\ IsNone(get_history_message(TheSession, r.entry.id))
                    => IsNone(get_history_message(r.session, r.entry.id))
              /\ message.role /= "system"
                    => get_history_message(added, r.entry.id) = Some(message)

\* C18 witness: a session whose id counter has wrapped around, with entries
\* retained, none of which carries the next id.
C18_Witness ==
    /\ TheSession.history_messages.current_id = IdMin
    /\ len(TheSession.history_messages) = 2
    /\ IsNone(get_history_message(TheSession, IdMin + 1))

\* The ids of the entries the pool retains: inserted, and neither evicted nor cleared.
RetainedIds ==
    {TheSession.history_messages.deque[k] : k \in 1 .. len(TheSession.history_messages)}

\* C19: in every reachable session get_history_message(id) returns a message
\* exactly when an entry with that id is retained in the pool, and none for
\* every other id.
C19_LookupIffRetained ==
    \A id \in Ids : IsSome(get_history_message(TheSession, id)) <=> id \in RetainedIds

\* C20: in every reachable session get_history_messages returns the system
\* message first, if one is set, followed by the message of every entry the
\* pool retains, each once, in insertion order, and nothing else; for a
\* conversation never referenced the manager returns the empty sequence.
C20_SystemThenPool ==
    LET pool == TheSession.history_messages
        msgs == get_history_messages(TheSession)
        sys == IF IsSome(TheSession.system_message) THEN 1 ELSE 0
    IN /\ sys = 1 => msgs[1] = Unwrap(TheSession.system_message)
       /\ Len(msgs) = sys + len(pool)
       /\ \A k \in 1 .. len(pool) :
              /\ IsSome(get_message(pool, pool.deque[k]))
              /\ msgs[sys + k] = Unwrap(get_message(pool, pool.deque[k])).message
       /\ mgr_get_history_messages(sessions, Chat) = msgs
       /\ mgr_get_history_messages(sessions, "c2") = << >>

\* The values swap_pending_message is called with: none, or a user's message.
SwapArgs == {None} \cup {Some(Message("user", c)) : c \in Contents}

\* C21: from every reachable session and for every x, swap_pending_message(x)
\* returns what the pending slot held before the call and leaves the slot
\* equal to x, so that the slot holds at most one message, the last one
\* stored; the pool and the system slot are unchanged. The same holds through
\* SessionManager::swap_session_pending_message.
C21_SwapReturnsPrevious ==
    \A x \in SwapArgs :
        LET r == swap_pending_message(TheSession, x)
            after == swap_session_pending_message(sessions, Chat, x)[Chat]
        IN /\ r.ret = TheSession.pending_message
           /\ r.session.pending_message = x
           /\ Len(r.session.pending_message) <= 1
           /\ r.session.history_messages = TheSession.history_messages
           /\ r.session.system_message = TheSession.system_message
           /\ after = r.session
           /\ swap_pending_message(r.session, None).ret = x

\* C21 witness: the slot already holds a message when another one is stored,
\* next to a system message and retained entries.
C21_Witness ==
    /\ TheSession.pending_message = Some(Message("user", "u1"))
    /\ IsSome(TheSession.system_message)
    /\ len(TheSession.history_messages) = 2

\* C22: from every reachable session, reset clears the system slot, the pool
\* (the ordering and the id index) and the pending slot: right afterwards
\* get_history_messages is empty, get_history_message finds no id and
\* swap_pending_message(none) returns none. The same holds through
\* SessionManager::reset_session.
C22_ResetClears ==
    LET r == reset(TheSession)
    IN /\ IsNone(r.system_message)
       /\ r.history_messages.deque = << >>
       /\ r.history_messages.messages = EmptyMap
       /\ IsNone(r.pending_message)
       /\ get_history_messages(r) = << >>
       /\ \A id \in Ids : IsNone(get_history_message(r, id))
       /\ IsNone(swap_pending_message(r, None).ret)
       /\ reset_session(sessions, Chat)[Chat] = r
       /\ mgr_get_history_messages(reset_session(sessions, Chat), Chat) = << >>

\* C22 witness: a session with all three parts filled, about to be reset.
C22_Witness ==
    /\ IsSome(TheSession.system_message)
    /\ len(TheSession.history_messages) = MaxLimit
    /\ DOMAIN TheSession.history_messages.messages /= {}
    /\ TheSession.pending_message = Some(Message("user", "u2"))

\* -------------------------------------------------------- Show-original claim

\* The step in which a show-original request with a message looks its id up.
ShowRawLooks(h) ==
    /\ hd[h].pc = "idle"
    /\ hd'[h].pc \in {"show_raw_edit", "show_raw_stale"}

\* C23: a show-original request with a history id: when the id is retained in
\* the conversation's pool, the displayed message is edited to the content
\* stored with that id, otherwise the stale notice is sent; either way the
\* handler then returns having handled the request, and the system slot, the
\* pool and the pending slot stay as they were throughout.
C23_ShowOriginal ==
    /\ [][\A h \in Handlers : ShowRawLooks(h) =>
             LET id == hd'[h].history_msg_id
                 deque == Conv.history_messages.deque
                 retained == \E k \in 1 .. Len(deque) : deque[k] = id
             IN /\ retained =>
                       /\ hd'[h].pc = "show_raw_edit"
                       /\ \E k \in 1 .. Len(PoolEntries) :
                              /\ PoolEntries[k].id = id
                              /\ hd'[h].raw = PoolEntries[k].message.content
                /\ ~retained => hd'[h].pc = "show_raw_stale"
                /\ Conv' = Conv]_vars
    /\ [][\A h \in Handlers :
             (hd[h].pc \in {"show_raw_edit", "show_raw_stale"} /\ hd'[h] /= hd[h]) =>
                 /\ hd'[h].pc = "idle"
                 /\ last_return' =
                        (IF hd[h].pc = "show_raw_edit" THEN "raw_shown" ELSE "stale_notified")
                 /\ sessions' = sessions]_vars

\* C23 witness: after a show-original request replaced a reply by its stored
\* content, a request with the id of an evicted entry has led to the stale notice.
C23_Witness ==
    /\ last_return = "raw_shown"
    /\ hd[1].pc = "show_raw_stale"
    /\ PoolMsgs /= << >>
    /\ hd[1].history_msg_id = Conv.history_messages.current_id

\* =========================================================================
\* markdown::parse (modules/chat/markdown.rs)
\*
\* A string is the sequence of its characters. The characters that occur:
\* "x" (one byte, one UTF-16 unit), "emoji" (a character outside the BMP: four
\* bytes, two units), "bullet" (U+2022: three bytes, one unit), and the ASCII
\* characters "\n", "#", " ", ".", "-" and the digits.
\* =========================================================================

\* The events parse is fed with, at most, before the input ends.
MaxEvents == 8

Digits == << "0", "1", "2", "3", "4", "5", "6", "7", "8", "9" >>

\* `str::encode_utf16().count()` and `str::len()`
Utf16Units(c) == IF c = "emoji" THEN 2 ELSE 1
Utf8Bytes(c) == CASE c = "emoji" -> 4 [] c = "bullet" -> 3 [] OTHER -> 1

RECURSIVE CharCount(_)
CharCount(string) ==
    IF string = << >> THEN 0 ELSE 1 + CharCount(Tail(string))
RECURSIVE encode_utf16_count(_)
encode_utf16_count(string) ==
    IF string = << >> THEN 0 ELSE Utf16Units(Head(string)) + encode_utf16_count(Tail(string))
RECURSIVE str_len(_)
str_len(string) ==
    IF string = << >> THEN 0 ELSE Utf8Bytes(Head(string)) + str_len(Tail(string))

\* `str::repeat(n)` of a one-character string
Repeat(c, n) == [k \in 1 .. n |-> c]

\* `format!("{}", n)` of an unsigned integer
RECURSIVE Decimal(_)
Decimal(n) ==
    IF n < 10 THEN << Digits[n + 1] >> ELSE Decimal(n \div 10) \o << Digits[(n % 10) + 1] >>

\* `str::ends_with('\n')`
EndsWithNewline(string) == string /= << >> /\ string[Len(string)] = "\n"

\* `String::truncate(new_len)`: it panics when new_len is not on a char boundary
Truncate(string, new_len) ==
    IF new_len >= str_len(string)
    THEN [panic |-> FALSE, string |-> string]
    ELSE LET cuts == {k \in 0 .. Len(string) : str_len(SubSeq(string, 1, k)) = new_len}
         IN IF cuts = {}
            THEN [panic |-> TRUE, string |-> string]
            ELSE [panic |-> FALSE, string |-> SubSeq(string, 1, CHOOSE k \in cuts : TRUE)]

\* `url.parse()` into a Url: an absolute URL parses, a bare word does not
GoodUrl == "http://h"
BadUrl == "invalid"
UrlParse(url) == IF url = GoodUrl THEN Some(url) ELSE None

\* Tag, Event (the crate's own), and the pulldown-cmark tags and events that
\* `TryFrom` maps to them; "Table" and "TaskListMarker" stand for the ones it
\* maps to an error.
Tag(name) == [name |-> name, level |-> 0, lang |-> None, first |-> None, url |-> ""]
Heading(level) == [Tag("Heading") EXCEPT !.level = level]
CodeBlock(lang) == [Tag("CodeBlock") EXCEPT !.lang = lang]
List(first) == [Tag("List") EXCEPT !.first = first]
Link(url) == [Tag("Link") EXCEPT !.url = url]
Image(url) == [Tag("Image") EXCEPT !.url = url]
TagNames == {"Paragraph", "Heading", "CodeBlock", "List", "Item", "Italic", "Bold",
             "Strikethrough", "Link", "Image"}
TagFromCmark(tag) ==
    IF tag.name \in TagNames THEN [ok |-> TRUE, tag |-> tag]
    ELSE [ok |-> FALSE, err |-> "UnexpectedCmarkTag"]
EventFromCmark(event) ==
    CASE event.type \in {"Start", "End"} ->
            LET t == TagFromCmark(event.tag)
            IN IF t.ok THEN [ok |-> TRUE, event |-> event]
               ELSE [ok |-> FALSE, err |-> t.err]
      [] event.type \in {"Text", "Code", "Break"} -> [ok |-> TRUE, event |-> event]
      [] OTHER -> [ok |-> FALSE, err |-> "UnexpectedCmarkEvent"]

\* EntityKind::try_from(&Tag)
EntityKindFromTag(tag) ==
    CASE tag.name = "List" -> [ok |-> TRUE, kind |-> [entity |-> "List", start |-> tag.first]]
      [] tag.name = "CodeBlock" ->
            [ok |-> TRUE, kind |-> [entity |-> "Pre", language |-> tag.lang]]
      [] tag.name \in {"Italic", "Bold", "Strikethrough"} ->
            [ok |-> TRUE, kind |-> [entity |-> tag.name]]
      [] tag.name \in {"Link", "Image"} ->
            IF IsSome(UrlParse(tag.url))
            THEN [ok |-> TRUE, kind |-> [entity |-> "TextLink", url |-> Unwrap(UrlParse(tag.url))]]
            ELSE [ok |-> FALSE, err |-> "InvalidURL"]
      [] OTHER -> [ok |-> FALSE, err |-> "UnexpectedTag"]

PARAGRAPH_MARGIN == 2
LIST_ITEM_MARGIN == 1

Ok(state) == [ok |-> TRUE, state |-> state]
Err(e) == [ok |-> FALSE, err |-> e]

\* ParseState::new
NewParseState ==
    [entity_stack |-> << >>, content |-> << >>, entities |-> << >>,
     utf16_offset |-> 0, prev_block_margin |-> 0]

\* ParseState::push_str
PushStrCountsChars(st, string) ==
    [st EXCEPT !.content = st.content \o string,
               !.utf16_offset = st.utf16_offset + CharCount(string),
               !.prev_block_margin = 0]
push_str(st, string) ==
    [st EXCEPT !.content = st.content \o string,
               !.utf16_offset = st.utf16_offset + encode_utf16_count(string),
               !.prev_block_margin = 0]

\* ParseState::push_block
push_block(st, margin) ==
    IF st.prev_block_margin >= margin
    THEN st
    ELSE [push_str(st, Repeat("\n", margin - st.prev_block_margin))
             EXCEPT !.prev_block_margin = margin]

MessageEntity(kind, offset, length) == [kind |-> kind, offset |-> offset, length |-> length]

Last(seq) == seq[Len(seq)]
Pop(seq) == SubSeq(seq, 1, Len(seq) - 1)

\* ParseState::start
start(st, tag) ==
    CASE tag.name = "Paragraph" -> Ok(st)
      [] tag.name = "Heading" -> Ok(push_str(st, Repeat("#", tag.level) \o << " " >>))
      [] tag.name = "Item" ->
            IF st.entity_stack = << >>
            THEN Err("UnmatchedEntity")
            ELSE LET kind == Last(st.entity_stack).kind
                 IN IF kind.entity /= "List"
                    THEN Err("UnmatchedEntity")
                    ELSE IF IsSome(kind.start)
                         THEN Ok(push_str(st, Decimal(Unwrap(kind.start)) \o << ".", " " >>))
                         ELSE Ok(push_str(st, << "bullet", " " >>))
      [] OTHER ->
            LET k == EntityKindFromTag(tag)
            IN IF ~k.ok
               THEN Err("UnexpectedTag")
               ELSE Ok([st EXCEPT !.entity_stack =
                           Append(st.entity_stack, [kind |-> k.kind, start |-> st.utf16_offset])])

\* The arms of ParseState::end that pop an entity and push its MessageEntity:
\* `accepts` is the pattern the popped kind has to match.
EndEntity(st, accepts) ==
    IF st.entity_stack = << >>
    THEN Err("UnmatchedEntity")
    ELSE LET e == Last(st.entity_stack)
         IN IF e.kind.entity \notin accepts
            THEN Err("UnmatchedEntity")
            ELSE Ok([st EXCEPT !.entity_stack = Pop(st.entity_stack),
                               !.entities = Append(st.entities,
                                   MessageEntity(e.kind, e.start, st.utf16_offset - e.start))])

\* `if self.parsed_string.content.ends_with('\n') { self.prev_block_margin = 1; }`
OwnNewlineAssumed(st) == [st EXCEPT !.prev_block_margin = 1]
OwnNewline(st) ==
    IF EndsWithNewline(st.content) THEN [st EXCEPT !.prev_block_margin = 1] ELSE st

\* `if let Some(start_number) = maybe_start_number { *start_number += 1; }`
IncrementStartOfAny(maybe_start_number) ==
    IF IsSome(maybe_start_number) THEN Some(Unwrap(maybe_start_number) + 1) ELSE Some(1)
IncrementStart(maybe_start_number) ==
    IF IsSome(maybe_start_number) THEN Some(Unwrap(maybe_start_number) + 1) ELSE None

\* ParseState::end
end(st, tag) ==
    CASE tag.name \in {"Paragraph", "Heading"} -> Ok(push_block(st, PARAGRAPH_MARGIN))
      [] tag.name = "CodeBlock" ->
            LET r == EndEntity(st, {"Pre"})
            IN IF ~r.ok THEN r
               ELSE Ok(push_block(OwnNewline(r.state), PARAGRAPH_MARGIN))
      [] tag.name = "List" ->
            IF st.entity_stack = << >>
            THEN Err("UnmatchedEntity")
            ELSE IF Last(st.entity_stack).kind.entity = "List"
                 THEN Ok(push_block([st EXCEPT !.entity_stack = Pop(st.entity_stack)],
                                    PARAGRAPH_MARGIN))
                 ELSE Err("UnmatchedEntity")
      [] tag.name = "Item" ->
            IF st.entity_stack /= << >> /\ Last(st.entity_stack).kind.entity = "List"
            THEN LET top == Len(st.entity_stack)
                     list == st.entity_stack[top].kind
                     bumped == [st EXCEPT !.entity_stack[top].kind.start =
                                             IncrementStart(list.start)]
                 IN Ok(push_block(bumped, LIST_ITEM_MARGIN))
            ELSE Err("UnmatchedEntity")
      [] tag.name \in {"Italic", "Bold", "Strikethrough"} ->
            EndEntity(st, {"Pre", "Italic", "Bold", "Strikethrough", "TextLink"})
      [] tag.name \in {"Link", "Image"} -> EndEntity(st, {"TextLink"})

\* ParseState::text, ParseState::code, ParseState::break
text(st, string) == push_str(st, string)
code(st, string) ==
    LET pushed == push_str(st, string)
    IN [pushed EXCEPT !.entities = Append(st.entities,
            MessageEntity([entity |-> "Code"], st.utf16_offset,
                          pushed.utf16_offset - st.utf16_offset))]
break(st) == push_str(st, << "\n" >>)

\* ParseState::next_state
next_state(st, event) ==
    CASE event.type = "Start" -> start(st, event.tag)
      [] event.type = "End" -> end(st, event.tag)
      [] event.type = "Text" -> Ok(text(st, event.text))
      [] event.type = "Code" -> Ok(code(st, event.text))
      [] event.type = "Break" -> Ok(break(st))

\* The closure of parse's try_fold
FoldStep(st, cmark_event) ==
    LET mapped == EventFromCmark(cmark_event)
    IN IF mapped.ok THEN next_state(st, mapped.event) ELSE Err(mapped.err)

ParsedString(content, entities) == [content |-> content, entities |-> entities]

\* ParsedString::with_str
with_str(string) == ParsedString(string, << >>)

\* ParseState::close: the outcomes the build can produce. The subtraction
\* `content.len() - prev_block_margin` panics on underflow in a build with
\* overflow checks and wraps in one without, where truncate then does nothing.
close(st) ==
    IF st.prev_block_margin > str_len(st.content)
    THEN {[panic |-> TRUE, parsed |-> ParsedString(st.content, st.entities)],
          [panic |-> FALSE, parsed |-> ParsedString(st.content, st.entities)]}
    ELSE LET cut == Truncate(st.content, str_len(st.content) - st.prev_block_margin)
         IN {[panic |-> cut.panic, parsed |-> ParsedString(cut.string, st.entities)]}

\* ---- ParseSpec: parse, one event of the pulldown-cmark parser at a time
\*
\* md.st is the fold's accumulator, md.status how far parse has come, md.result
\* what it returned, md.raw the markup it was called with. The rest records the
\* parser's side: md.open is the nesting of the tags it has started and not
\* yet ended (each with the UTF-16 length of the output when it started, the
\* items a list has started, the events inside it, and whether the last of
\* them was a break), md.events counts its events, md.requested is the largest
\* margin the block ends since the last output text have asked for, and
\* md.stray records an End event that does not end the innermost open tag,
\* which the parser never emits. md.spans lists, in the order of their last
\* event, the entity tags ended and the inline code events: the tag, the UTF-16
\* length of the output at its start and at its end, and how many spans were
\* listed when it started. When parse returns, the accumulator is dropped
\* (md.dropped: with spans in it; md.failed_on: the event that failed).

Raw == << "r", "a", "w" >>

Texts == {<< "x", "emoji" >>}
CodeLine == << "x", "\n" >>
CodeText == << "x" >>
SpanTags == {"CodeBlock", "Italic", "Bold", "Strikethrough", "Link", "Image"}

BlockStarts == {Tag("Paragraph"), Heading(1), CodeBlock(Some("c")), List(None), List(Some(9))}
InlineStarts == {Tag("Bold"), Link(GoodUrl), Link(BadUrl)}

TopName(open) == IF open = << >> THEN "Document" ELSE Last(open).tag.name

\* What pulldown-cmark can start inside the innermost open tag
Startable(open) ==
    CASE TopName(open) = "Document" -> BlockStarts
      [] TopName(open) = "Item" -> BlockStarts \cup InlineStarts
      [] TopName(open) = "List" -> {Tag("Item")}
      [] TopName(open) = "CodeBlock" -> {}
      [] OTHER -> InlineStarts
HoldsInline(open) ==
    TopName(open) \in {"Paragraph", "Heading", "Item", "Italic", "Bold", "Link"}

Frame(tag, at, from) ==
    [tag |-> tag, at |-> at, from |-> from, items |-> 0, children |-> 0, last |-> "none"]

\* The nesting after one more event, of the given kind, inside the innermost open tag
Child(open, kind) ==
    IF open = << >> THEN open
    ELSE [open EXCEPT ![Len(open)].children = @ + 1, ![Len(open)].last = kind]

\* The parser merges adjacent text into one Text event
AfterText(open) == open /= << >> /\ Last(open).last = "text"

Margin(tag) ==
    CASE tag.name \in {"Paragraph", "Heading", "CodeBlock", "List"} -> PARAGRAPH_MARGIN
      [] tag.name = "Item" -> LIST_ITEM_MARGIN
      [] OTHER -> 0

\* One round of the try_fold: on Ok the accumulator is replaced, on Err parse
\* returns `ParsedString::with_str(content)` at once.
Feed(event, open, requested, stray, spans) ==
    /\ md.status = "folding"
    /\ md.events < MaxEvents
    /\ LET r == FoldStep(md.st, event)
       IN md' = IF r.ok
                THEN [md EXCEPT !.st = r.state, !.open = open, !.events = @ + 1,
                                !.requested = requested, !.stray = stray, !.spans = spans]
                ELSE [md EXCEPT !.status = "failed", !.st = NewParseState, !.open = << >>,
                                !.requested = 0, !.stray = stray, !.spans = << >>,
                                !.dropped = md.st.entities /= << >>,
                                !.failed_on = [type |-> event.type, tag |-> event.tag],
                                !.result = with_str(md.raw)]
    /\ UNCHANGED << bp, ca, tvars, svars, ovars, lvars >>

FeedStart ==
    \E tag \in Startable(md.open) :
        Feed([type |-> "Start", tag |-> tag, text |-> << >>],
             Append(Child(md.open, "tag"),
                    Frame(tag, encode_utf16_count(md.st.content), Len(md.spans))),
             IF tag.name \in {"Heading", "Item"} THEN 0 ELSE md.requested,
             md.stray, md.spans)

\* The parser ends the innermost open tag: a paragraph, heading or inline
\* format holds something, a list holds an item, and no tag ends on a break.
FeedEnd ==
    /\ md.open /= << >>
    /\ LET top == Last(md.open)
           rest == Pop(md.open)
       IN /\ top.tag.name \in {"Paragraph", "Heading", "Italic", "Bold"} => top.children >= 1
          /\ top.tag.name = "List" => top.items >= 1
          /\ top.last /= "break"
          /\ Feed([type |-> "End", tag |-> top.tag, text |-> << >>],
                  IF top.tag.name = "Item"
                  THEN [rest EXCEPT ![Len(rest)].items = @ + 1]
                  ELSE rest,
                  Max(md.requested, Margin(top.tag)),
                  md.stray,
                  IF top.tag.name \in SpanTags
                  THEN Append(md.spans, [tag |-> top.tag, at |-> top.at, from |-> top.from,
                                         end |-> encode_utf16_count(md.st.content)])
                  ELSE md.spans)

FeedText ==
    \/ /\ HoldsInline(md.open)
       /\ ~AfterText(md.open)
       /\ \E string \in Texts :
             Feed([type |-> "Text", tag |-> Tag("none"), text |-> string],
                  Child(md.open, "text"), 0, md.stray, md.spans)
    \/ /\ TopName(md.open) = "CodeBlock"
       /\ Feed([type |-> "Text", tag |-> Tag("none"), text |-> CodeLine],
               Child(md.open, "line"), 0, md.stray, md.spans)

FeedCode ==
    /\ HoldsInline(md.open)
    /\ Feed([type |-> "Code", tag |-> Tag("none"), text |-> CodeText],
            Child(md.open, "code"), 0, md.stray,
            Append(md.spans,
                   [tag |-> Tag("Code"), at |-> encode_utf16_count(md.st.content),
                    from |-> Len(md.spans),
                    end |-> encode_utf16_count(md.st.content \o CodeText)]))

\* A break comes between two inline events of one tag
FeedBreak ==
    /\ HoldsInline(md.open)
    /\ Last(md.open).last \notin {"none", "break"}
    /\ Feed([type |-> "Break", tag |-> Tag("none"), text |-> << >>],
            Child(md.open, "break"), 0, md.stray, md.spans)

\* A tag or an event that the conversions have no arm for
FeedUnsupported ==
    \/ Feed([type |-> "Start", tag |-> Tag("Table"), text |-> << >>],
            md.open, md.requested, md.stray, md.spans)
    \/ Feed([type |-> "TaskListMarker", tag |-> Tag("none"), text |-> << >>],
            md.open, md.requested, md.stray, md.spans)

\* An End event of a code block or a link while the innermost open tag is
\* another one
FeedStray ==
    \E tag \in {CodeBlock(None), Link(GoodUrl)} :
        /\ TopName(md.open) /= tag.name
        /\ Feed([type |-> "End", tag |-> tag, text |-> << >>],
                md.open, md.requested, TRUE, md.spans)

\* The parser's events are exhausted, every tag ended: `state.close()`
Finish ==
    /\ md.status = "folding"
    /\ md.open = << >>
    /\ \E outcome \in close(md.st) :
          md' = [md EXCEPT !.status = IF outcome.panic THEN "panicked" ELSE "closed",
                           !.st = NewParseState, !.requested = 0,
                           !.result = outcome.parsed]
    /\ UNCHANGED << bp, ca, tvars, svars, ovars, lvars >>

\* parse(content) is entered
ParseInit ==
    /\ md = [status |-> "folding", st |-> NewParseState, raw |-> Raw,
             result |-> ParsedString(<< >>, << >>), open |-> << >>, events |-> 0,
             requested |-> 0, stray |-> FALSE, spans |-> << >>, dropped |-> FALSE,
             failed_on |-> [type |-> "none", tag |-> Tag("none")]]
    /\ bp = << >> /\ ca = << >>
    /\ sessions = EmptyMap /\ conversation_limit = 0
    /\ input_len = 0 /\ upstream = 0 /\ stream_ready = << >> /\ stream_closed = FALSE
    /\ interval = 0 /\ buffer = None /\ active_sleep = None /\ done = FALSE /\ now = 0
    /\ stream_waker = FALSE /\ sleep_waker = FALSE /\ woken = FALSE
    /\ emitted = << >> /\ out_ended = FALSE /\ poll_result = "none"
    /\ hd = << >> /\ invocations = 0 /\ usage = 0 /\ last_return = "none"
    /\ taken = FALSE
    /\ lock = << >> /\ call = << >>
    /\ openai_api_timeout = 0 /\ renders_markdown = FALSE

ParseNext ==
    \/ FeedStart \/ FeedEnd \/ FeedText \/ FeedCode \/ FeedBreak
    \/ FeedUnsupported \/ FeedStray \/ Finish

ParseSpec == ParseInit /\ [][ParseNext]_vars

\* C24: parse is total and falls back as a whole: it never panics, the
\* trailing-margin trim included; and whenever an event cannot be handled
\* (a link whose URL does not parse, an unsupported tag or event, an entity
\* stack that does not match) it returns the input markup verbatim with no
\* span, whatever had been emitted before.
C24_TotalAndWholeFallback ==
    /\ md.status /= "panicked"
    /\ md.status = "folding" => md.st.prev_block_margin <= str_len(md.st.content)
    /\ md.status = "failed" => md.result = ParsedString(md.raw, << >>)

\* C24 witness: a link whose URL does not parse has ended a parse that had
\* already emitted spans.
C24_Witness ==
    /\ md.status = "failed"
    /\ md.dropped
    /\ md.failed_on.tag.url = BadUrl
    /\ md.result.content = md.raw

\* The spans parse has emitted so far, or returned.
Spans == IF md.status = "closed" THEN md.result.entities ELSE md.st.entities

\* The span's kind is the one its tag asks for.
KindOf(tag, kind) ==
    CASE tag.name = "CodeBlock" -> kind.entity = "Pre" /\ kind.language = tag.lang
      [] tag.name \in {"Link", "Image"} -> kind.entity = "TextLink" /\ kind.url = tag.url
      [] OTHER -> kind.entity = tag.name

\* C25: during and after a successful parse, the spans are, in the order in
\* which their entities were closed, one per closed entity: its offset is the
\* UTF-16 length the output had when the entity was opened, its length the
\* number of UTF-16 units appended until it was closed (two for a character
\* outside the BMP); a span closed inside another precedes it and lies inside
\* it; a fenced code block's span is preformatted and carries its language tag.
C25_SpansAtUtf16Offsets ==
    md.status \in {"folding", "closed"} =>
        /\ Len(Spans) = Len(md.spans)
        /\ \A k \in 1 .. Len(md.spans) :
              /\ Spans[k].offset = md.spans[k].at
              /\ Spans[k].length = md.spans[k].end - md.spans[k].at
              /\ KindOf(md.spans[k].tag, Spans[k].kind)
              /\ \A j \in (md.spans[k].from + 1) .. (k - 1) :
                    /\ Spans[k].offset <= Spans[j].offset
                    /\ Spans[j].offset + Spans[j].length <= Spans[k].offset + Spans[k].length

\* C25 witness: a parse has returned two spans, the first nested in the second,
\* which starts after a character outside the BMP.
C25_Witness ==
    /\ md.status = "closed"
    /\ Len(md.result.entities) = 2
    /\ md.spans[2].from = 0
    /\ Len(md.result.content) >= 2
    /\ md.result.content[2] = "emoji"
    /\ md.result.entities[2].offset = 3
    /\ md.result.entities[1].offset >= 3

\* The newline characters the string ends with.
RECURSIVE TrailingNewlines(_)
TrailingNewlines(string) ==
    IF EndsWithNewline(string) THEN 1 + TrailingNewlines(Pop(string)) ELSE 0

\* C26: after any run of block ends with no text between them, the output ends
\* with as many newline characters as the largest margin the run asked for (2
\* for a paragraph, heading, code block or list, 1 for a list item; the final
\* newline of a code block's own text counts as one of them), never with their
\* sum; and the content parse returns ends with no margin.
C26_MarginsCollapse ==
    /\ (md.status = "folding" /\ md.requested > 0)
          => TrailingNewlines(md.st.content) = md.requested
    /\ md.status = "closed" => ~EndsWithNewline(md.result.content)

\* The prefix of item number k (from 0) of a list that starts at `first`.
ItemPrefix(first, k) ==
    IF IsSome(first) THEN Decimal(Unwrap(first) + k) \o << ".", " " >> ELSE << "bullet", " " >>

\* C27: when an item has just been started, the output ends with the item's
\* prefix, appended at the item's start: the numeral n + k, a full stop and a
\* space for item k (from 0) of an ordered list starting at n, whatever the
\* earlier items contained, and the bullet and a space in an unordered list;
\* no list or item event fails, and no span is emitted for a list or an item.
C27_ListPrefixes ==
    /\ (md.status = "folding" /\ TopName(md.open) = "Item" /\ Last(md.open).children = 0) =>
          LET item == Last(md.open)
              list == md.open[Len(md.open) - 1]
              prefix == ItemPrefix(list.tag.first, list.items)
              content == md.st.content
          IN /\ list.tag.name = "List"
             /\ Len(content) >= Len(prefix)
             /\ SubSeq(content, Len(content) - Len(prefix) + 1, Len(content)) = prefix
             /\ encode_utf16_count(content) - encode_utf16_count(prefix) = item.at
    /\ md.status = "failed" => md.failed_on.tag.name \notin {"List", "Item"}
    /\ \A k \in 1 .. Len(Spans) :
          Spans[k].kind.entity \in {"Pre", "Italic", "Bold", "Strikethrough", "TextLink", "Code"}

\* C27 witness: the second item of an ordered list starting at 9 has just been
\* started, after a first item that contained an unordered list.
C27_Witness ==
    /\ md.status = "folding"
    /\ Len(md.open) = 2
    /\ md.open[1].tag.first = Some(9)
    /\ md.open[1].items = 1
    /\ md.open[2].tag.name = "Item"
    /\ md.open[2].children = 0
    /\ \E k \in 1 .. Len(md.st.content) : md.st.content[k] = "bullet"
    /\ SubSeq(md.st.content, Len(md.st.content) - 3, Len(md.st.content)) = << "1", "0", ".", " " >>

\* =========================================================================
\* braille::BrailleProgress (modules/chat/braille.rs)
\*
\* A rendering is the sequence of the code points of the string.
\* =========================================================================

MaxWidth == 2
MaxHeight == 2
\* The arc lengths tried: up to and beyond the smallest perimeter
MaxLength == 9
\* The times around the perimeter that string_for_progress is tried with
MaxLaps == 2

BLANK == 10240
DOTS == << << 1, 8 >>, << 2, 16 >>, << 4, 32 >>, << 64, 128 >> >>

\* `*ch |= bit`, for a bit of DOTS
BitOr(ch, bit) == IF (ch \div bit) % 2 = 1 THEN ch ELSE ch + bit

\* BrailleProgress::new
NewBrailleProgress(width, height, length, label) ==
    [width |-> width, height |-> height, length |-> length, current |-> 0, label |-> label]

\* BrailleProgress::pixel_length
pixel_length(p) == (p.width * 2 + p.height * 4 - 2) * 2

\* BrailleProgress::advance_progress
AdvanceUnwrapped(p) == [p EXCEPT !.current = p.current + 1]
advance_progress(p) == [p EXCEPT !.current = (p.current + 1) % pixel_length(p)]

\* `counter -= 1;` between two sides: the corner is the last pixel of one side
\* and the first of the next
NextSideAfterCorner(counter) == counter
NextSide(counter) == counter - 1

\* The pixels the four loops of string_for_progress visit, in order, each with
\* the index of its character, its bit and the value of `counter` at the visit
Visit(idx, bit, counter) == [idx |-> idx, bit |-> bit, counter |-> counter]
Top(p, from) ==
    [k \in 1 .. 2 * p.width |->
        Visit((k - 1) \div 2, DOTS[1][((k - 1) % 2) + 1], from + k - 1)]
Right(p, from) ==
    [k \in 1 .. 4 * p.height |->
        Visit(((k - 1) \div 4) * p.width + p.width - 1, DOTS[((k - 1) % 4) + 1][2],
              from + k - 1)]
Bottom(p, from) ==
    [k \in 1 .. 2 * p.width |->
        Visit((p.height - 1) * p.width + (p.width - 1 - ((k - 1) \div 2)),
              DOTS[4][(1 - ((k - 1) % 2)) + 1], from + k - 1)]
Left(p, from) ==
    [k \in 1 .. 4 * p.height |->
        Visit((p.height - 1 - ((k - 1) \div 4)) * p.width,
              DOTS[(3 - ((k - 1) % 4)) + 1][1], from + k - 1)]
Visits(p) ==
    LET top == Top(p, 0)
        right == Right(p, NextSide(Last(top).counter + 1))
        bottom == Bottom(p, NextSide(Last(right).counter + 1))
        left == Left(p, NextSide(Last(bottom).counter + 1))
    IN top \o right \o bottom \o left

\* `range.contains(&counter) || counter <= out_of_range`
InArc(p, current, counter) ==
    LET mod_current == current % pixel_length(p)
        out_of_range == mod_current + p.length - 1 - pixel_length(p)
    IN \/ mod_current <= counter /\ counter < mod_current + p.length
       \/ counter <= out_of_range

\* The vector `chars` once the four loops have run (indexed from 0)
RECURSIVE Paint(_, _, _, _)
Paint(chars, visits, p, current) ==
    IF visits = << >>
    THEN chars
    ELSE LET v == Head(visits)
         IN Paint(IF InArc(p, current, v.counter)
                  THEN [chars EXCEPT ![v.idx] = BitOr(chars[v.idx], v.bit)]
                  ELSE chars,
                  Tail(visits), p, current)
Chars(p, current) ==
    Paint([idx \in 0 .. p.width * p.height - 1 |-> BLANK], Visits(p), p, current)

\* The code points of '\n' and ' '
Newline == 10
Space == 32

\* BrailleProgress::string_for_progress
string_for_progress(p, current) ==
    LET chars == Chars(p, current)
        lines == Flatten([i \in 1 .. p.width * p.height |->
                     IF (i - 1) % p.width = 0
                     THEN << Newline, chars[i - 1] >>
                     ELSE << chars[i - 1] >>])
    IN IF IsSome(p.label) THEN lines \o << Space >> \o Unwrap(p.label) ELSE lines

\* BrailleProgress::current_string
current_string(p) == string_for_progress(p, p.current)

\* ---- BrailleSpec: one progress indicator, advanced and rendered
\*
\* bp.progress is the indicator, bp.string the string rendered since it was
\* last advanced, if any, and bp.advanced whether it was ever advanced.

\* The label "T", or none
Labels == {None, Some(<< 84 >>)}

\* `progress_bar.advance_progress()`
AdvanceProgress ==
    /\ bp' = [bp EXCEPT !.progress = advance_progress(bp.progress), !.advanced = TRUE,
                        !.string = << >>]
    /\ UNCHANGED << md, ca, tvars, svars, ovars, lvars >>

\* `progress_bar.current_string()`
CurrentString ==
    /\ bp' = [bp EXCEPT !.string = current_string(bp.progress)]
    /\ UNCHANGED << md, ca, tvars, svars, ovars, lvars >>

\* BrailleProgress::new(width, height, length, label), nothing rendered yet
BrailleInit ==
    /\ \E width \in 1 .. MaxWidth, height \in 1 .. MaxHeight, length \in 0 .. MaxLength,
          label \in Labels :
          bp = [progress |-> NewBrailleProgress(width, height, length, label),
                string |-> << >>, advanced |-> FALSE]
    /\ md = << >> /\ ca = << >>
    /\ sessions = EmptyMap /\ conversation_limit = 0
    /\ input_len = 0 /\ upstream = 0 /\ stream_ready = << >> /\ stream_closed = FALSE
    /\ interval = 0 /\ buffer = None /\ active_sleep = None /\ done = FALSE /\ now = 0
    /\ stream_waker = FALSE /\ sleep_waker = FALSE /\ woken = FALSE
    /\ emitted = << >> /\ out_ended = FALSE /\ poll_result = "none"
    /\ hd = << >> /\ invocations = 0 /\ usage = 0 /\ last_return = "none"
    /\ taken = FALSE
    /\ lock = << >> /\ call = << >>
    /\ openai_api_timeout = 0 /\ renders_markdown = FALSE

BrailleNext == AdvanceProgress \/ CurrentString

BrailleSpec == BrailleInit /\ [][BrailleNext]_vars

\* advance_progress, n times
RECURSIVE AdvanceTimes(_, _)
AdvanceTimes(p, n) == IF n = 0 THEN p ELSE AdvanceTimes(advance_progress(p), n - 1)

\* C28: with P = (2 * width + 4 * height - 2) * 2, the frame counter stays in
\* [0, P) under advance_progress; the rendering for a counter c is the one
\* for c mod P; and P advances from any state lead back to the same counter
\* and the same rendering.
C28_Periodic ==
    LET p == bp.progress
        P == (2 * p.width + 4 * p.height - 2) * 2
    IN /\ pixel_length(p) = P
       /\ p.current \in 0 .. P - 1
       /\ \A lap \in 0 .. MaxLaps :
              LET c == p.current + lap * P
              IN string_for_progress(p, c) = string_for_progress(p, c % P)
       /\ AdvanceTimes(p, P).current = p.current
       /\ current_string(AdvanceTimes(p, P)) = current_string(p)
       /\ \A n \in 1 .. P - 1 : AdvanceTimes(p, n).current /= p.current

\* C28 witness: the indicator the chat handler builds (1 by 1, arc of 3) has
\* been advanced once around and rendered.
C28_Witness ==
    /\ bp.advanced
    /\ bp.progress.current = 0
    /\ bp.progress.width = 1 /\ bp.progress.height = 1 /\ bp.progress.length = 3
    /\ IsSome(bp.progress.label)
    /\ bp.string = current_string(bp.progress)

\* The perimeter pixel at a position: (column, row) from the top left, numbered
\* along the top from left to right, down the right side, along the bottom from
\* right to left and up the left side, each corner once.
PixelAt(p, position) ==
    LET w == 2 * p.width
        h == 4 * p.height
    IN CASE position <= w - 1 -> << position, 0 >>
         [] position <= w + h - 2 -> << w - 1, position - (w - 1) >>
         [] position <= 2 * w + h - 3 -> << (w - 1) - (position - (w + h - 2)), h - 1 >>
         [] OTHER -> << 0, (h - 1) - (position - (2 * w + h - 3)) >>

\* The pixels lit in a rendering: the dots set in its braille characters
LitPixels(p, string) ==
    {px \in (0 .. 2 * p.width - 1) \X (0 .. 4 * p.height - 1) :
        LET idx == (px[2] \div 4) * p.width + (px[1] \div 2)
            ch == string[idx + (idx \div p.width) + 2]
        IN (ch \div DOTS[(px[2] % 4) + 1][(px[1] % 2) + 1]) % 2 = 1}

\* C29: for every width and height from 1, arc length up to P and counter c,
\* the rendering lights the perimeter pixels at the positions c, c + 1, ...,
\* c + length - 1 modulo P, and no other pixel.
C29_LightsTheArc ==
    LET p == bp.progress
        P == (2 * p.width + 4 * p.height - 2) * 2
    IN p.length <= P =>
          \A lap \in 0 .. MaxLaps :
              LET c == p.current + lap * P
                  lit == LitPixels(p, string_for_progress(p, c))
              IN /\ lit = {PixelAt(p, (c + i) % P) : i \in 0 .. p.length - 1}
                 /\ Cardinality(lit) = p.length

\* C29 witness: a 2 by 2 indicator whose arc of 9 wraps over the top left
\* corner has been rendered.
C29_Witness ==
    /\ bp.progress.width = 2 /\ bp.progress.height = 2 /\ bp.progress.length = 9
    /\ bp.progress.current = pixel_length(bp.progress) - 4
    /\ bp.string = current_string(bp.progress)
    /\ << 0, 0 >> \in LitPixels(bp.progress, bp.string)
    /\ << 0, 4 >> \in LitPixels(bp.progress, bp.string)
    /\ << 1, 0 >> \in LitPixels(bp.progress, bp.string)

\* =========================================================================
\* dptree_ext::extract_command_args (utils/dptree_ext.rs)
\*
\* A string is the sequence of its characters.
\* =========================================================================

\* The longest input tried
MaxInput == 6

\* `str::strip_prefix`
strip_prefix(string, pat) ==
    IF Len(string) >= Len(pat) /\ SubSeq(string, 1, Len(pat)) = pat
    THEN Some(SubSeq(string, Len(pat) + 1, Len(string)))
    ELSE None

\* extract_command_args
ExtractAnyRest(input, cmd, username) == strip_prefix(input, << "/" >> \o cmd)
extract_command_args(input, cmd, username) ==
    LET stripped == strip_prefix(input, << "/" >> \o cmd)
    IN IF IsNone(stripped)
       THEN None
       ELSE LET rest == Unwrap(stripped)
                mention_part == << "@" >> \o username
                args == IF IsSome(strip_prefix(rest, mention_part))
                        THEN Unwrap(strip_prefix(rest, mention_part))
                        ELSE rest
            IN IF rest = << >> THEN Some(rest)
               ELSE IF args = << >> THEN Some(args)
               ELSE strip_prefix(args, << " " >>)

\* ---- ArgsSpec: extract_command_args applied to every short input

InputChars == {"/", "t", "@", "b", " "}
Inputs == UNION {[1 .. n -> InputChars] : n \in 0 .. MaxInput}
Commands == {<< "t" >>}
Usernames == {<< "b" >>, << "b", "t" >>}

\* command_filter calls extract_command_args on the message's text
Extract ==
    /\ ca.pc = "called"
    /\ ca' = [ca EXCEPT !.pc = "returned",
                        !.result = extract_command_args(ca.input, ca.cmd, ca.username)]
    /\ UNCHANGED << md, bp, tvars, svars, ovars, lvars >>

\* The next message is filtered
NextInput ==
    /\ ca.pc = "returned"
    /\ \E input \in {<< "/", "t" >>, << "/", "t", "@", "b", " ", "t" >>} :
          ca' = [ca EXCEPT !.pc = "called", !.input = input, !.result = None]
    /\ UNCHANGED << md, bp, tvars, svars, ovars, lvars >>

ArgsInit ==
    /\ \E input \in Inputs, cmd \in Commands, username \in Usernames :
          ca = [pc |-> "called", input |-> input, cmd |-> cmd, username |-> username,
                result |-> None]
    /\ md = << >> /\ bp = << >>
    /\ sessions = EmptyMap /\ conversation_limit = 0
    /\ input_len = 0 /\ upstream = 0 /\ stream_ready = << >> /\ stream_closed = FALSE
    /\ interval = 0 /\ buffer = None /\ active_sleep = None /\ done = FALSE /\ now = 0
    /\ stream_waker = FALSE /\ sleep_waker = FALSE /\ woken = FALSE
    /\ emitted = << >> /\ out_ended = FALSE /\ poll_result = "none"
    /\ hd = << >> /\ invocations = 0 /\ usage = 0 /\ last_return = "none"
    /\ taken = FALSE
    /\ lock = << >> /\ call = << >>
    /\ openai_api_timeout = 0 /\ renders_markdown = FALSE

ArgsNext == Extract \/ NextInput

ArgsSpec == ArgsInit /\ [][ArgsNext]_vars

\* The input is '/' and the command, optionally '@' and the username, and then
\* either nothing, with no arguments, or a space and the arguments.
IsCommandWith(input, cmd, username, args) ==
    \E head \in {<< "/" >> \o cmd, << "/" >> \o cmd \o << "@" >> \o username} :
        \/ input = head /\ args = << >>
        \/ input = head \o << " " >> \o args

\* The strings an input ends with
Suffixes(input) == {SubSeq(input, k, Len(input)) : k \in 1 .. Len(input) + 1}

\* C30: extract_command_args returns the arguments exactly when the input is
\* '/' and cmd, optionally '@' and the bot's username, then nothing or one
\* space and the arguments; it returns none otherwise: when cmd is only the
\* beginning of a longer command name, when the mention names another bot, and
\* when text follows the mention without a space.
C30_ArgsExactlyWhenCommand ==
    ca.pc = "returned" =>
        /\ IsSome(ca.result) => IsCommandWith(ca.input, ca.cmd, ca.username, Unwrap(ca.result))
        /\ IsNone(ca.result) =>
              \A args \in Suffixes(ca.input) :
                  ~IsCommandWith(ca.input, ca.cmd, ca.username, args)
        /\ \A tail \in Suffixes(ca.input) :
              LET command == << "/" >> \o ca.cmd
                  mention == command \o << "@" >> \o ca.username
              IN /\ (ca.input = command \o << "t" >> \o tail) => IsNone(ca.result)
                 /\ (ca.input = command \o << "@", "t" >> \o tail) => IsNone(ca.result)
                 /\ (ca.input = mention \o << "b" >> \o tail) => IsNone(ca.result)

\* C30 witness: a command with a mention of this bot and an argument has
\* yielded the argument.
C30_Witness ==
    /\ ca.pc = "returned"
    /\ ca.input = << "/", "t", "@", "b", " ", "t" >>
    /\ ca.username = << "b" >>
    /\ ca.result = Some(<< "t" >>)

\* =========================================================================
\* Claims about the markdown parser's returned spans (ParseSpec)
\* =========================================================================

\* C31: for every successful parse, every returned span lies inside the
\* returned content: offset + length is at most the UTF-16 length of the
\* content after the trailing margin has been trimmed, also when the span's
\* entity closes at the very end of the input.
C31_SpansInsideContent ==
    md.status = "closed" =>
        \A k \in 1 .. Len(md.result.entities) :
            md.result.entities[k].offset + md.result.entities[k].length
                <= encode_utf16_count(md.result.content)

\* =========================================================================
\* Claims about failures of the model stream and retries (Spec)
\* =========================================================================

\* C32: when the model's stream has reported an error after yielding items,
\* the turn does not go on to render and commit the answer received so far:
\* the step that ends the reading of the stream fails the turn into the error
\* prompt with the Retry button, the user message stashed.
C32_StreamErrorFailsTurn ==
    [][\A h \in Handlers :
          (hd[h].pc = "streaming" /\ hd[h].stream_err /\ hd'[h].pc /= "streaming")
          => /\ hd'[h].pc = "edit_error"
             /\ Conv'.pending_message = Some(UserMsg(h))]_vars

\* =========================================================================
\* Claims about the throttle's wake-ups and the stall detector
\* =========================================================================

\* C33: no lost wake-up: whenever the last poll_next returned Pending, the
\* inner stream or the cooldown timer holds the task's waker, or has already
\* woken the task; so a consumer that polls only when woken is polled again.
C33_NoLostWakeup ==
    poll_result = "Pending" => (stream_waker \/ sleep_waker \/ woken)

\* =========================================================================
\* Claims about concurrent handlers of one conversation (LockSpec)
\* =========================================================================

\* The pool of a task's conversation, oldest entry first.
PoolOf(ss, t) == iter(SessionOf(ss, call[t].key).history_messages)

C35_AtMostOneRetryTakes ==
    \A k \in Keys : Cardinality({t \in Tasks : call[t].key = k /\ call[t].took}) <= 1

\* C35 witness: task 2 has stashed a message, task 1 has taken it, and task 2,
\* asking for it afterwards, has found the slot empty.
C35_Witness ==
    /\ call[1].key = call[2].key
    /\ call[1].calls = 1
    /\ call[1].took
    /\ call[2].calls = 2
    /\ call[2].pc = "awaiting"
    /\ call[2].method = "swap_session_pending_message"
    /\ call[2].msg = None
    /\ ~call[2].took
    /\ IsNone(SessionOf(sessions, call[2].key).pending_message)

\* C36: whenever a rendered answer shows the Show Raw Contents control, a
\* show-original request for the id it carries finds the message: the control
\* is not on display while its id is not yet committed to the pool.
C36_ShownIsRetrievable ==
    \A t \in Tasks :
        call[t].shown =>
            IsSome(get_history_message(SessionOf(sessions, call[t].key),
                                       Unwrap(call[t].reply).id))

\* C37: a retry that does not end in a successful turn does not lose the
\* stashed user message: when the turn a retry has started returns without
\* having committed (the placeholder send, the model call or the final edit
\* has failed), the pending slot holds that turn's user message again.
C37_FailedRetryKeepsMessage ==
    [][\A h \in Handlers :
          (/\ hd[h].pc \in {"send_placeholder", "open_stream", "streaming",
                            "edit_formatted", "edit_raw", "edit_error"}
           /\ ~hd[h].reply_to_msg
           /\ hd'[h].pc = "idle"
           /\ last_return' /= "success")
          => Conv'.pending_message = Some(UserMsg(h))]_vars

\* =========================================================================
\* stream_model_result's loop over the throttled stream (StallSpec)
\* =========================================================================

\* `tokio::time::sleep(Duration::from_secs(1))`, in clock units: the throttle
\* interval and the clock are in seconds here.
TickLen == 1

\* The task inside the loop: `timeout_times`, `last_response`, and the
\* deadline of the one-second sleep of the current select!.
StreamingTask ==
    [pc |-> "streaming", timeout_times |-> 0, last_response |-> None, tick |-> TickLen]

\* select!: `throttled_stream.next()` is polled, at the start of an iteration
\* or because the task was woken. A buffer resets the counter and the loop
\* goes round (a new one-second sleep); None breaks the loop; on Pending the
\* select! goes on waiting.
SelectNext(h) ==
    /\ hd[h].pc = "streaming"
    /\ woken
    /\ poll_next
    /\ hd' = [hd EXCEPT ![h] =
               CASE poll_result' = "Some" ->
                      [@ EXCEPT !.timeout_times = 0,
                                !.last_response = Some(Last(Last(emitted').buf)),
                                !.tick = now + TickLen]
                 [] poll_result' = "None" -> [@ EXCEPT !.pc = "ended"]
                 [] OTHER -> @]
    /\ UNCHANGED << invocations, usage, last_return, taken, openai_api_timeout,
                    renders_markdown, svars, lvars, fvars >>

\* select!: the one-second sleep has completed. The counter is incremented;
\* at the budget the function returns the timeout error, otherwise the loop
\* goes round: a new sleep, and `throttled_stream.next()` is polled again.
SelectTick(h) ==
    /\ hd[h].pc = "streaming"
    /\ now >= hd[h].tick
    /\ LET t == hd[h].timeout_times + 1
       IN hd' = [hd EXCEPT ![h] =
                   IF TimedOut(t, openai_api_timeout)
                   THEN [@ EXCEPT !.pc = "timed_out", !.timeout_times = t]
                   ELSE [@ EXCEPT !.timeout_times = t, !.tick = now + TickLen]]
    /\ woken' = TRUE
    /\ UNCHANGED << input_len, upstream, stream_ready, stream_closed, interval, buffer,
                    active_sleep, done, now, stream_waker, sleep_waker, emitted,
                    out_ended, poll_result >>
    /\ UNCHANGED << invocations, usage, last_return, taken, openai_api_timeout,
                    renders_markdown, svars, lvars, fvars >>

\* The stream is requested and wrapped: `stream.throttle_buffer(interval)`,
\* `timeout_times = 0`, `last_response = None`, for every configuration
StallInit ==
    /\ input_len \in 0 .. MaxItems
    /\ interval \in 0 .. MaxInterval
    /\ openai_api_timeout \in 0 .. MaxTimeout
    /\ hd = [h \in Handlers |-> StreamingTask]
    /\ upstream = 0 /\ stream_ready = << >> /\ stream_closed = FALSE
    /\ buffer = None /\ active_sleep = None /\ done = FALSE /\ now = 0
    /\ stream_waker = FALSE /\ sleep_waker = FALSE /\ woken = TRUE
    /\ emitted = << >> /\ out_ended = FALSE /\ poll_result = "none"
    /\ sessions = << >> /\ conversation_limit = 0
    /\ invocations = 0 /\ usage = 0 /\ last_return = "none"
    /\ taken = FALSE /\ renders_markdown = FALSE
    /\ lock = << >> /\ call = << >>
    /\ md = << >> /\ bp = << >> /\ ca = << >>

\* The task runs as soon as it is woken: time passes while it is suspended.
Elapse == ~woken /\ Clock

StallNext ==
    \/ \E h \in Handlers : SelectNext(h) \/ SelectTick(h)
    \/ Arrive \/ Close \/ Elapse

StallSpec == StallInit /\ [][StallNext]_vars

\* C38: throttling delay is no stall: the timeout error is not returned
\* while the throttle holds items the model's stream has delivered and that
\* only wait for the cooldown, still running, to end, for every throttle
\* interval and budget.
C38_ThrottleDelayIsNoStall ==
    \A h \in Handlers :
        hd[h].pc = "timed_out" =>
            ~(IsSome(buffer) /\ IsSome(active_sleep) /\ now < Unwrap(active_sleep))

\* =========================================================================
\* Claims about the shape of the pool
\* =========================================================================

\* C39: in every state of a conversation that only the handlers drive, for
\* every conversation_limit, the pool consists of whole turns: an even number
\* of entries, alternately a user message and an assistant message, the first
\* one a user message.
C39_PoolIsWholeTurns ==
    /\ Len(PoolMsgs) % 2 = 0
    /\ \A k \in 1 .. Len(PoolMsgs) :
          PoolMsgs[k].role = IF k % 2 = 1 THEN "user" ELSE "assistant"

\* C40: after any sequence of the Session's public operations, an
\* add_history_message of an id that is already retained included, the ids in
\* the ordering queue are pairwise distinct and are exactly the keys of the
\* id-keyed index, so that len, iter and get_message agree on what is retained.
C40_QueueMatchesIndex ==
    LET pool == TheSession.history_messages
    IN /\ \A i, j \in 1 .. Len(pool.deque) : i /= j => pool.deque[i] /= pool.deque[j]
       /\ {pool.deque[k] : k \in 1 .. Len(pool.deque)} = DOMAIN pool.messages
       /\ Len(iter(pool)) = len(pool)

====
